---- MODULE Spec2Model ----
(***************************************************************************)
(* Verification model of the ITCH 5.0 feed handler core:                   *)
(*   - spsc::RingBuffer<T, Capacity>   (include/spsc/ring_buffer.hpp)      *)
(*   - moldudp64::Session              (include/moldudp64/session.hpp)     *)
(*   - itch5::Parser                   (include/itch5/parser.hpp)          *)
(*   - dpdk::PacketHandler             (include/dpdk/packet_handler.hpp)   *)
(*   - FeedHandler                     (src/feed_handler.hpp)              *)
(*                                                                         *)
(* The ring is modelled at the granularity of the individual loads and     *)
(* stores of try_push / try_pop / peek / empty / full / size / available,  *)
(* one producer thread and one consumer thread.  A slot of type T is       *)
(* copied word by word (T is trivially copyable, not atomic), so a slot    *)
(* is two words w0, w1 written and read by separate steps.                 *)
(***************************************************************************)
EXTENDS Integers, Sequences, FiniteSets, TLC

\* ---------------------------------------------------------------- bounds
LogCapacity == 2
ExtraItems == 1
MaxPackets == 3
MaxSeq == 4
MaxCount == 2
MaxRecoveryPackets == 2
MaxFileCalls == 2
MaxStream == 3
MaxFrames == 2

\* ------------------------------------------------------- ring: constants
Capacity == 2 ^ LogCapacity

\* values the producer of the general model offers: enough to fill the ring,
\* fail once and wrap the indices
MaxItems == Capacity + ExtraItems

NUM_MESSAGES == Capacity + 2

Nullopt == [has_value |-> FALSE]

\* no observer has returned yet
NoResult == [void |-> TRUE]

Some(v) == [has_value |-> TRUE, value |-> v]

\* a value of the element type T, as the two words the copy moves
T(v) == [w0 |-> v, w1 |-> v]

Slots == 0 .. (Capacity - 1)

VARIABLES
    \* RingBuffer members
    head_, tail_, buffer_,
    \* producer thread: position, locals of try_push, result, loop variable
    p_pc, current_head, next_head, p_item, p_ret, p_i, p_steps,
    \* consumer thread: position, operation, locals, results
    c_pc, c_op, current_tail, c_head, c_item, c_ret, c_obs, c_steps,
    \* what the callers have seen so far
    pushed, popped, lastPeek, p_popsAtCall,
    \* test_concurrent_spsc: done flag and the consumer's order check
    done, last_consumed, order_error,
    \* moldudp64::Session members
    session_id_, expected_sequence_, state_, pending_gaps_,
    packets_received_, messages_received_, gaps_detected_, heartbeats_received_,
    gap_callback_, message_callback_,
    \* what the caller of the session saw: the operation and packet of the
    \* last call, its result, the callbacks it invoked (in order), and the run
    \* of in-order packets so far
    s_op, pkt_in, s_ret, calls, inOrderRun, runSum, runLog,
    \* what the accepted data packets of the current session have shown: the
    \* largest sequence number of a parse_log message (none yet: <<>>), and
    \* the largest 64-bit sum seq + count of their headers (none yet: 1)
    observed, declared,
    \* itch5::Parser::stats_ of the PacketHandler's parser
    stats_,
    \* PacketHandler members
    packets_processed_, bytes_processed_, invalid_packets_,
    messages_pushed_, buffer_full_count_,
    \* the PacketHandler call in progress on the producer thread: position,
    \* entry point, argument, messages still to hand to the parser, whether
    \* the packet was accepted, the locals of process_itch_file_data, result
    h_pc, h_op, h_in, h_todo, h_ok, messages_processed, parsed, h_ret,
    \* FeedHandler members and the position of its consumer thread
    running_, total_messages_processed_, c_loop,
    \* what the callers have seen: calls made, messages handed to the parser
    \* by the call in progress, records handed to push_message so far, the
    \* counts the call in progress started from, and the number of records
    \* enqueued when stop() cleared the flag
    h_calls, parse_log, offered, h_before, stop_pushed

ringVars == <<head_, tail_, buffer_>>

prodVars == <<p_pc, current_head, next_head, p_item, p_ret, p_i, p_steps>>

consVars == <<c_pc, c_op, current_tail, c_head, c_item, c_ret, c_obs, c_steps>>

testVars == <<done, last_consumed, order_error>>

histVars == <<pushed, popped, lastPeek, p_popsAtCall, testVars>>

sessVars == <<session_id_, expected_sequence_, state_, pending_gaps_,
              packets_received_, messages_received_, gaps_detected_,
              heartbeats_received_, gap_callback_, message_callback_>>

callVars == <<s_op, pkt_in, s_ret, calls, inOrderRun, runSum, runLog,
              observed, declared>>

allRingVars == <<ringVars, prodVars, consVars, histVars>>

statVars == <<stats_, packets_processed_, bytes_processed_, invalid_packets_,
              messages_pushed_, buffer_full_count_>>

handVars == <<h_pc, h_op, h_in, h_todo, h_ok, messages_processed, parsed,
              h_ret, h_calls, parse_log, offered, h_before>>

feedVars == <<running_, total_messages_processed_, c_loop, stop_pushed>>

pipeVars == <<statVars, handVars, feedVars>>

vars == <<ringVars, prodVars, consVars, histVars, sessVars, callVars, pipeVars>>

\* ------------------------------------------------------ ring: operators
RECURSIVE BitAnd(_, _)
BitAnd(a, b) ==
    IF a = 0 \/ b = 0 THEN 0
    ELSE (a % 2) * (b % 2) + 2 * BitAnd(a \div 2, b \div 2)

\* RingBuffer::increment
increment(index) == BitAnd(index + 1, Capacity - 1)

\* RingBuffer::size, on the two values it loaded
size(head, tail) == IF head >= tail THEN head - tail ELSE Capacity - tail + head

\* number of records enqueued and not yet dequeued
Live == Len(pushed) - Len(popped)

\* ------------------------------------------------------------- RingInit
RingInit ==
    /\ head_ = 0
    /\ tail_ = 0
    /\ buffer_ = [i \in Slots |-> T(0)]
    /\ p_pc = "idle" /\ current_head = 0 /\ next_head = 0 /\ p_item = T(0)
    /\ p_ret = FALSE /\ p_i = 0 /\ p_steps = 0
    /\ c_pc = "idle" /\ c_op = "none" /\ current_tail = 0 /\ c_head = 0
    /\ c_item = T(0) /\ c_ret = Nullopt /\ c_obs = NoResult /\ c_steps = 0
    /\ pushed = <<>> /\ popped = <<>> /\ lastPeek = Nullopt
    /\ p_popsAtCall = 0
    /\ done = FALSE /\ last_consumed = 0 /\ order_error = FALSE

\* ------------------------------------------------------------- try_push
\* const size_t current_head = head_.load(relaxed); next_head = increment(..)
TryPushLoadHead ==
    /\ p_pc = "push_load_head"
    /\ current_head' = head_
    /\ next_head' = increment(head_)
    /\ p_pc' = "push_load_tail"
    /\ p_steps' = p_steps + 1
    /\ UNCHANGED <<p_item, p_ret, p_i>>
    /\ UNCHANGED <<ringVars, consVars, histVars>>

\* try_push without the full check: always goes on to write the slot
TryPushLoadTail_NoFullCheck ==
    /\ p_pc = "push_load_tail"
    /\ p_pc' = "push_write0"
    /\ p_steps' = p_steps + 1
    /\ UNCHANGED <<current_head, next_head, p_item, p_ret, p_i>>
    /\ UNCHANGED <<ringVars, consVars, histVars>>

\* try_push testing current_head, not next_head, against tail
TryPushLoadTail_ComparesHead ==
    /\ p_pc = "push_load_tail"
    /\ IF current_head = tail_
       THEN p_pc' = "push_ret" /\ p_ret' = FALSE
       ELSE p_pc' = "push_write0" /\ p_ret' = p_ret
    /\ p_steps' = p_steps + 1
    /\ UNCHANGED <<current_head, next_head, p_item, p_i>>
    /\ UNCHANGED <<ringVars, consVars, histVars>>

\* try_push that retries in place while the ring is full, as push() does
TryPushLoadTail_Spins ==
    /\ p_pc = "push_load_tail"
    /\ IF next_head = tail_
       THEN p_pc' = "push_load_head"
       ELSE p_pc' = "push_write0"
    /\ p_steps' = p_steps + 1
    /\ UNCHANGED <<current_head, next_head, p_item, p_ret, p_i>>
    /\ UNCHANGED <<ringVars, consVars, histVars>>

\* if (next_head == tail_.load(acquire)) return false;
TryPushLoadTail ==
    /\ p_pc = "push_load_tail"
    /\ IF next_head = tail_
       THEN p_pc' = "push_ret" /\ p_ret' = FALSE
       ELSE p_pc' = "push_write0" /\ p_ret' = p_ret
    /\ p_steps' = p_steps + 1
    /\ UNCHANGED <<current_head, next_head, p_item, p_i>>
    /\ UNCHANGED <<ringVars, consVars, histVars>>

\* buffer_[current_head] = item;   (first word)
TryPushWrite0 ==
    /\ p_pc = "push_write0"
    /\ buffer_' = [buffer_ EXCEPT ![current_head].w0 = p_item.w0]
    /\ p_pc' = "push_write1"
    /\ p_steps' = p_steps + 1
    /\ UNCHANGED <<head_, tail_>>
    /\ UNCHANGED <<current_head, next_head, p_item, p_ret, p_i>>
    /\ UNCHANGED <<consVars, histVars>>

\* buffer_[current_head] = item;   (second word)
TryPushWrite1 ==
    /\ p_pc = "push_write1"
    /\ buffer_' = [buffer_ EXCEPT ![current_head].w1 = p_item.w1]
    /\ p_pc' = "push_store_head"
    /\ p_steps' = p_steps + 1
    /\ UNCHANGED <<head_, tail_>>
    /\ UNCHANGED <<current_head, next_head, p_item, p_ret, p_i>>
    /\ UNCHANGED <<consVars, histVars>>

\* try_push storing current_head back instead of next_head
TryPushStoreHead_StoresCurrent ==
    /\ p_pc = "push_store_head"
    /\ head_' = current_head
    /\ p_pc' = "push_ret"
    /\ p_ret' = TRUE
    /\ p_steps' = p_steps + 1
    /\ pushed' = Append(pushed, p_item)
    /\ UNCHANGED <<tail_, buffer_>>
    /\ UNCHANGED <<current_head, next_head, p_item, p_i>>
    /\ UNCHANGED <<popped, lastPeek, p_popsAtCall, testVars>>
    /\ UNCHANGED consVars

\* head_.store(next_head, release); return true;
TryPushStoreHead ==
    /\ p_pc = "push_store_head"
    /\ head_' = next_head
    /\ p_pc' = "push_ret"
    /\ p_ret' = TRUE
    /\ p_steps' = p_steps + 1
    /\ pushed' = Append(pushed, p_item)
    /\ UNCHANGED <<tail_, buffer_>>
    /\ UNCHANGED <<current_head, next_head, p_item, p_i>>
    /\ UNCHANGED <<popped, lastPeek, p_popsAtCall, testVars>>
    /\ UNCHANGED consVars

try_push ==
    \/ TryPushLoadHead
    \/ TryPushLoadTail
    \/ TryPushWrite0
    \/ TryPushWrite1
    \/ TryPushStoreHead

\* -------------------------------------------------------------- try_pop
\* const size_t current_tail = tail_.load(relaxed);
TryPopLoadTail ==
    /\ c_pc = "pop_load_tail"
    /\ current_tail' = tail_
    /\ c_pc' = "pop_load_head"
    /\ c_steps' = c_steps + 1
    /\ UNCHANGED <<c_op, c_head, c_item, c_ret, c_obs>>
    /\ UNCHANGED <<ringVars, prodVars, histVars>>

\* try_pop without the empty check: always goes on to read the slot
TryPopLoadHead_NoEmptyCheck ==
    /\ c_pc = "pop_load_head"
    /\ c_head' = head_
    /\ c_pc' = "pop_read0"
    /\ c_steps' = c_steps + 1
    /\ UNCHANGED <<c_op, current_tail, c_item, c_ret, c_obs>>
    /\ UNCHANGED <<ringVars, prodVars, histVars>>

\* try_pop testing the head it cached in its previous call, not a fresh load
TryPopLoadHead_StaleHead ==
    /\ c_pc = "pop_load_head"
    /\ IF current_tail = c_head
       THEN c_pc' = "cons_ret" /\ c_ret' = Nullopt /\ c_head' = head_
       ELSE c_pc' = "pop_read0" /\ c_ret' = c_ret /\ c_head' = c_head
    /\ c_steps' = c_steps + 1
    /\ UNCHANGED <<c_op, current_tail, c_item, c_obs>>
    /\ UNCHANGED <<ringVars, prodVars, histVars>>

\* if (current_tail == head_.load(acquire)) return std::nullopt;
TryPopLoadHead ==
    /\ c_pc = "pop_load_head"
    /\ c_head' = head_
    /\ IF current_tail = head_
       THEN c_pc' = "cons_ret" /\ c_ret' = Nullopt
       ELSE c_pc' = "pop_read0" /\ c_ret' = c_ret
    /\ c_steps' = c_steps + 1
    /\ UNCHANGED <<c_op, current_tail, c_item, c_obs>>
    /\ UNCHANGED <<ringVars, prodVars, histVars>>

\* T item = buffer_[current_tail];   (first word)
TryPopRead0 ==
    /\ c_pc = "pop_read0"
    /\ c_item' = [c_item EXCEPT !.w0 = buffer_[current_tail].w0]
    /\ c_pc' = "pop_read1"
    /\ c_steps' = c_steps + 1
    /\ UNCHANGED <<c_op, current_tail, c_head, c_ret, c_obs>>
    /\ UNCHANGED <<ringVars, prodVars, histVars>>

\* T item = buffer_[current_tail];   (second word)
TryPopRead1 ==
    /\ c_pc = "pop_read1"
    /\ c_item' = [c_item EXCEPT !.w1 = buffer_[current_tail].w1]
    /\ c_pc' = "pop_store_tail"
    /\ c_steps' = c_steps + 1
    /\ UNCHANGED <<c_op, current_tail, c_head, c_ret, c_obs>>
    /\ UNCHANGED <<ringVars, prodVars, histVars>>

\* try_pop that rewinds both indices to 0 when it empties the ring
TryPopStoreTail_ResetsWhenEmpty ==
    /\ c_pc = "pop_store_tail"
    /\ IF increment(current_tail) = head_
       THEN tail_' = 0 /\ head_' = 0
       ELSE tail_' = increment(current_tail) /\ head_' = head_
    /\ c_ret' = Some(c_item)
    /\ c_pc' = "cons_ret"
    /\ c_steps' = c_steps + 1
    /\ popped' = Append(popped, c_item)
    /\ UNCHANGED buffer_
    /\ UNCHANGED <<c_op, current_tail, c_head, c_item, c_obs>>
    /\ UNCHANGED <<pushed, lastPeek, p_popsAtCall, testVars>>
    /\ UNCHANGED prodVars

\* tail_.store(increment(current_tail), release); return item;
TryPopStoreTail ==
    /\ c_pc = "pop_store_tail"
    /\ tail_' = increment(current_tail)
    /\ c_ret' = Some(c_item)
    /\ c_pc' = "cons_ret"
    /\ c_steps' = c_steps + 1
    /\ popped' = Append(popped, c_item)
    /\ UNCHANGED <<head_, buffer_>>
    /\ UNCHANGED <<c_op, current_tail, c_head, c_item, c_obs>>
    /\ UNCHANGED <<pushed, lastPeek, p_popsAtCall, testVars>>
    /\ UNCHANGED prodVars

try_pop ==
    \/ TryPopLoadTail
    \/ TryPopLoadHead
    \/ TryPopRead0
    \/ TryPopRead1
    \/ TryPopStoreTail

\* ----------------------------------------------------------------- peek
\* const size_t current_tail = tail_.load(relaxed);
PeekLoadTail ==
    /\ c_pc = "peek_load_tail"
    /\ current_tail' = tail_
    /\ c_pc' = "peek_load_head"
    /\ c_steps' = c_steps + 1
    /\ UNCHANGED <<c_op, c_head, c_item, c_ret, c_obs>>
    /\ UNCHANGED <<ringVars, prodVars, histVars>>

\* if (current_tail == head_.load(acquire)) return std::nullopt;
PeekLoadHead ==
    /\ c_pc = "peek_load_head"
    /\ c_head' = head_
    /\ IF current_tail = head_
       THEN c_pc' = "cons_ret" /\ c_ret' = Nullopt
       ELSE c_pc' = "peek_read0" /\ c_ret' = c_ret
    /\ c_steps' = c_steps + 1
    /\ UNCHANGED <<c_op, current_tail, c_item, c_obs>>
    /\ UNCHANGED <<ringVars, prodVars, histVars>>

\* return buffer_[current_tail];   (first word)
PeekRead0 ==
    /\ c_pc = "peek_read0"
    /\ c_item' = [c_item EXCEPT !.w0 = buffer_[current_tail].w0]
    /\ c_pc' = "peek_read1"
    /\ c_steps' = c_steps + 1
    /\ UNCHANGED <<c_op, current_tail, c_head, c_ret, c_obs>>
    /\ UNCHANGED <<ringVars, prodVars, histVars>>

\* peek that releases the slot it returned, as try_pop does
PeekRead1_Consumes ==
    /\ c_pc = "peek_read1"
    /\ c_item' = [c_item EXCEPT !.w1 = buffer_[current_tail].w1]
    /\ c_ret' = Some(c_item')
    /\ c_pc' = "cons_ret"
    /\ c_steps' = c_steps + 1
    /\ lastPeek' = Some(c_item')
    /\ tail_' = increment(current_tail)
    /\ UNCHANGED <<head_, buffer_>>
    /\ UNCHANGED <<c_op, current_tail, c_head, c_obs>>
    /\ UNCHANGED <<pushed, popped, p_popsAtCall, testVars>>
    /\ UNCHANGED prodVars

\* return buffer_[current_tail];   (second word, then return the copy)
PeekRead1 ==
    /\ c_pc = "peek_read1"
    /\ c_item' = [c_item EXCEPT !.w1 = buffer_[current_tail].w1]
    /\ c_ret' = Some(c_item')
    /\ c_pc' = "cons_ret"
    /\ c_steps' = c_steps + 1
    /\ lastPeek' = Some(c_item')
    /\ UNCHANGED <<c_op, current_tail, c_head, c_obs>>
    /\ UNCHANGED <<pushed, popped, p_popsAtCall, testVars>>
    /\ UNCHANGED <<ringVars, prodVars>>

peek ==
    \/ PeekLoadTail
    \/ PeekLoadHead
    \/ PeekRead0
    \/ PeekRead1

\* ------------------------------------- empty / full / size / available
\* first load of each observer: head_.load(acquire)
ObserverLoadHead ==
    /\ c_pc = "obs_load_head"
    /\ c_head' = head_
    /\ c_pc' = "obs_load_tail"
    /\ c_steps' = c_steps + 1
    /\ UNCHANGED <<c_op, current_tail, c_item, c_ret, c_obs>>
    /\ UNCHANGED <<ringVars, prodVars, histVars>>

\* second load, tail_.load(acquire), and the value each observer returns
ObserverResult(op, head, tail) ==
    CASE op = "empty" -> [bool |-> (head = tail)]
      [] op = "full" -> [bool |-> (increment(head) = tail)]
      [] op = "size" -> [count |-> size(head, tail)]
      [] op = "available" -> [count |-> Capacity - size(head, tail) - 1]

ObserverLoadTail ==
    /\ c_pc = "obs_load_tail"
    /\ c_obs' = ObserverResult(c_op, c_head, tail_)
    /\ c_pc' = "cons_ret"
    /\ c_steps' = c_steps + 1
    /\ UNCHANGED <<c_op, current_tail, c_head, c_item, c_ret>>
    /\ UNCHANGED <<ringVars, prodVars, histVars>>

observers ==
    \/ ObserverLoadHead
    \/ ObserverLoadTail

\* ------------------------------------------ callers of the general model
\* the producer thread offers the next value once and moves on whatever the
\* result (test_fifo_ordering, PacketHandler::push_message)
ProducerCall ==
    /\ p_pc = "idle"
    /\ p_i < MaxItems
    /\ p_item' = T(p_i)
    /\ p_pc' = "push_load_head"
    /\ p_ret' = FALSE
    /\ p_steps' = 0
    /\ p_popsAtCall' = Len(popped)
    /\ UNCHANGED <<current_head, next_head, p_i>>
    /\ UNCHANGED <<pushed, popped, lastPeek, testVars>>
    /\ UNCHANGED <<ringVars, consVars>>

ProducerReturn ==
    /\ p_pc = "push_ret"
    /\ p_pc' = "idle"
    /\ p_i' = p_i + 1
    /\ UNCHANGED <<current_head, next_head, p_item, p_ret, p_steps>>
    /\ UNCHANGED <<ringVars, consVars, histVars>>

ConsumerOps == {"try_pop", "peek", "empty", "full", "size", "available"}

FirstStep(op) ==
    CASE op = "try_pop" -> "pop_load_tail"
      [] op = "peek" -> "peek_load_tail"
      [] OTHER -> "obs_load_head"

ConsumerCall ==
    /\ c_pc = "idle"
    /\ \E op \in ConsumerOps :
          /\ c_op' = op
          /\ c_pc' = FirstStep(op)
    /\ c_steps' = 0
    /\ UNCHANGED <<current_tail, c_head, c_item, c_ret, c_obs>>
    /\ UNCHANGED <<ringVars, prodVars, histVars>>

\* the caller forgets what it peeked once it has dequeued that record
ConsumerReturn ==
    /\ c_pc = "cons_ret"
    /\ c_pc' = "idle"
    /\ lastPeek' = IF c_op = "try_pop" /\ c_ret.has_value THEN Nullopt ELSE lastPeek
    /\ UNCHANGED <<c_op, current_tail, c_head, c_item, c_ret, c_obs, c_steps>>
    /\ UNCHANGED <<pushed, popped, p_popsAtCall, testVars>>
    /\ UNCHANGED <<ringVars, prodVars>>

Producer == ProducerCall \/ try_push \/ ProducerReturn

Consumer == ConsumerCall \/ try_pop \/ peek \/ observers \/ ConsumerReturn


\* ------------------------------------------ test_concurrent_spsc threads
\* for (i = 0; i < NUM_MESSAGES; ++i) while (!buffer.try_push(i)) yield();
TestProducerCall ==
    /\ p_pc = "idle"
    /\ p_i < NUM_MESSAGES
    /\ p_item' = T(p_i)
    /\ p_pc' = "push_load_head"
    /\ p_ret' = FALSE
    /\ p_steps' = 0
    /\ p_popsAtCall' = Len(popped)
    /\ UNCHANGED <<current_head, next_head, p_i>>
    /\ UNCHANGED <<pushed, popped, lastPeek, testVars>>
    /\ UNCHANGED <<ringVars, consVars>>

\* a failed try_push is retried with the same value
TestProducerReturn ==
    /\ p_pc = "push_ret"
    /\ p_pc' = "idle"
    /\ p_i' = IF p_ret THEN p_i + 1 ELSE p_i
    /\ UNCHANGED <<current_head, next_head, p_item, p_ret, p_steps>>
    /\ UNCHANGED <<ringVars, consVars, histVars>>

\* done.store(true, release);
TestProducerDone ==
    /\ p_pc = "idle"
    /\ p_i = NUM_MESSAGES
    /\ done' = TRUE
    /\ p_pc' = "finished"
    /\ UNCHANGED <<current_head, next_head, p_item, p_ret, p_i, p_steps>>
    /\ UNCHANGED <<pushed, popped, lastPeek, p_popsAtCall, last_consumed, order_error>>
    /\ UNCHANGED <<ringVars, consVars>>

\* while (!done.load(acquire) || !buffer.empty()): the load of done
TestConsumerLoop ==
    /\ c_pc = "idle"
    /\ IF ~done
       THEN c_op' = "try_pop" /\ c_pc' = "pop_load_tail"
       ELSE c_op' = "empty" /\ c_pc' = "obs_load_head"
    /\ c_steps' = 0
    /\ UNCHANGED <<current_tail, c_head, c_item, c_ret, c_obs>>
    /\ UNCHANGED <<ringVars, prodVars, histVars>>

\* the return of empty() ends the loop or enters its body
TestConsumerEmptyReturn ==
    /\ c_pc = "cons_ret"
    /\ c_op = "empty"
    /\ IF c_obs.bool
       THEN c_pc' = "finished" /\ c_op' = c_op
       ELSE c_op' = "try_pop" /\ c_pc' = "pop_load_tail"
    /\ c_steps' = 0
    /\ UNCHANGED <<current_tail, c_head, c_item, c_ret, c_obs>>
    /\ UNCHANGED <<ringVars, prodVars, histVars>>

\* if (auto val = buffer.try_pop()) { order check; last_consumed = *val + 1; }
TestConsumerPopReturn ==
    /\ c_pc = "cons_ret"
    /\ c_op = "try_pop"
    /\ c_pc' = "idle"
    /\ IF c_ret.has_value
       THEN /\ order_error' = (order_error \/ c_ret.value # T(last_consumed))
            /\ last_consumed' = c_ret.value.w0 + 1
       ELSE UNCHANGED <<order_error, last_consumed>>
    /\ UNCHANGED <<c_op, current_tail, c_head, c_item, c_ret, c_obs, c_steps>>
    /\ UNCHANGED <<pushed, popped, lastPeek, p_popsAtCall, done>>
    /\ UNCHANGED <<ringVars, prodVars>>

TestProducer == TestProducerCall \/ try_push \/ TestProducerReturn \/ TestProducerDone

TestConsumer ==
    \/ TestConsumerLoop
    \/ try_pop
    \/ observers
    \/ TestConsumerEmptyReturn
    \/ TestConsumerPopReturn


\* ======================================================================
\* moldudp64::Session
\* ======================================================================
\* A uint64_t v is held as the integer congruent to v modulo 2^64 that lies
\* nearest to 0: 0, 1, 2, ... stand for themselves and -1, -2, ... for
\* 2^64-1, 2^64-2, ...  Addition and subtraction of small amounts are then
\* exact modulo 2^64 (0 - 1 = -1 is 2^64-1, -1 + 2 = 1 is the wrapped sum),
\* and the unsigned order puts every negative representative above every
\* non-negative one.
Lt64(a, b) == IF (a < 0) = (b < 0) THEN a < b ELSE b < 0

Gt64(a, b) == Lt64(b, a)

Le64(a, b) == ~Lt64(b, a)

Ge64(a, b) == ~Lt64(a, b)

Add64(a, n) == a + n

Sub64(a, n) == a - n

HEARTBEAT_SEQUENCE == 0

END_OF_SESSION == -1

\* sizeof(Header), sizeof(MessageBlock)
HeaderSize == 20

MessageBlockSize == 2

\* length of every message body carried by the modelled packets: each block
\* holds a message padded to the size of the largest kind (NOII)
MsgLen == 50

\* session identifiers on the wire; NoSession is the value-initialised array
NoSession == 0

SessionIds == {1, 2}

SeqValues == (0 .. MaxSeq) \cup {Sub64(END_OF_SESSION, 1), END_OF_SESSION}

\* A session-layer packet: the header fields and the blocks behind it.  The
\* buffer holds nblocks complete blocks followed by extra bytes of a further
\* block (0 none, 3 a length prefix and part of the body).
HeaderPackets ==
    [short : {FALSE}, session : SessionIds, sequence_number : SeqValues,
     message_count : 0 .. MaxCount, nblocks : 0 .. MaxCount, extra : {0, 3}]

ShortPacket ==
    [short |-> TRUE, session |-> 1, sequence_number |-> 1,
     message_count |-> 0, nblocks |-> 0, extra |-> 0]

\* a packet of the other session: once a session is adopted only its
\* identifier is looked at
OtherSessionPacket ==
    [short |-> FALSE, session |-> 2, sequence_number |-> 1,
     message_count |-> 1, nblocks |-> 1, extra |-> 0]

\* complete packets, and packets cut short inside their last declared block
Packets ==
    {pkt \in HeaderPackets :
        /\ pkt.session = 1
        /\ \/ pkt.nblocks = pkt.message_count /\ pkt.extra = 0
           \/ pkt.nblocks + 1 = pkt.message_count}
    \cup {OtherSessionPacket, ShortPacket}

PacketLen(pkt) ==
    IF pkt.short THEN HeaderSize - 1
    ELSE HeaderSize + pkt.nblocks * (MessageBlockSize + MsgLen) + pkt.extra

\* the heartbeat test written against the wrong special sequence number
is_heartbeat_WrongSequence(header) ==
    header.sequence_number = END_OF_SESSION /\ header.message_count = 0

\* HeaderParser::is_heartbeat
is_heartbeat(header) ==
    header.sequence_number = HEARTBEAT_SEQUENCE /\ header.message_count = 0

\* the end-of-session test demanding an empty packet as well
is_end_of_session_EmptyOnly(header) ==
    header.sequence_number = END_OF_SESSION /\ header.message_count = 0

\* HeaderParser::is_end_of_session
is_end_of_session(header) == header.sequence_number = END_OF_SESSION

GapEvent(gap) == [kind |-> "gap", start |-> gap.start, end |-> gap.end]

MsgEvent(seq, i) == [kind |-> "msg", seq |-> seq, block |-> i]

\* the message loop giving up every block of a packet that ends in a
\* truncated one
RECURSIVE MessageLoop_RollsBack(_, _, _, _, _, _)
MessageLoop_RollsBack(i, offset, current_seq, len, message_count, acc) ==
    IF i >= message_count THEN acc
    ELSE IF offset + MessageBlockSize > len THEN <<>>
    ELSE LET msg_len == MsgLen
             body == offset + MessageBlockSize
         IN IF body + msg_len > len THEN <<>>
            ELSE MessageLoop_RollsBack(i + 1, body + msg_len, Add64(current_seq, 1),
                                       len, message_count,
                                       Append(acc, MsgEvent(current_seq, i)))

\* the message loop of process_packet: the callbacks it makes, in order
RECURSIVE MessageLoop(_, _, _, _, _, _)
MessageLoop(i, offset, current_seq, len, message_count, acc) ==
    IF i >= message_count THEN acc
    ELSE IF offset + MessageBlockSize > len THEN acc
    ELSE LET msg_len == MsgLen
             body == offset + MessageBlockSize
         IN IF body + msg_len > len THEN acc
            ELSE MessageLoop(i + 1, body + msg_len, Add64(current_seq, 1), len,
                             message_count, Append(acc, MsgEvent(current_seq, i)))

\* check_gap_fill splitting a gap around a range that lies inside it
RECURSIVE check_gap_fill_Splits(_, _, _)
check_gap_fill_Splits(gaps, start, end) ==
    IF gaps = <<>> THEN <<>>
    ELSE LET it == Head(gaps)
             rest == check_gap_fill_Splits(Tail(gaps), start, end)
         IN IF Le64(start, it.start) /\ Ge64(end, it.end)
            THEN rest
            ELSE IF Le64(start, it.start) /\ Ge64(end, it.start)
            THEN LET g == [it EXCEPT !.start = Add64(end, 1)]
                 IN IF Gt64(g.start, g.end) THEN rest ELSE <<g>> \o rest
            ELSE IF Le64(start, it.end) /\ Ge64(end, it.end)
            THEN LET g == [it EXCEPT !.end = Sub64(start, 1)]
                 IN IF Gt64(g.start, g.end) THEN rest ELSE <<g>> \o rest
            ELSE IF Gt64(start, it.start) /\ Lt64(end, it.end) /\ Le64(start, end)
            THEN <<[it EXCEPT !.end = Sub64(start, 1)],
                   [it EXCEPT !.start = Add64(end, 1)]>> \o rest
            ELSE <<it>> \o rest

\* Session::check_gap_fill
RECURSIVE check_gap_fill(_, _, _)
check_gap_fill(gaps, start, end) ==
    IF gaps = <<>> THEN <<>>
    ELSE LET it == Head(gaps)
             rest == check_gap_fill(Tail(gaps), start, end)
         IN IF Le64(start, it.start) /\ Ge64(end, it.end)
            THEN rest
            ELSE IF Le64(start, it.start) /\ Ge64(end, it.start)
            THEN LET g == [it EXCEPT !.start = Add64(end, 1)]
                 IN IF Gt64(g.start, g.end) THEN rest ELSE <<g>> \o rest
            ELSE IF Le64(start, it.end) /\ Ge64(end, it.end)
            THEN LET g == [it EXCEPT !.end = Sub64(start, 1)]
                 IN IF Gt64(g.start, g.end) THEN rest ELSE <<g>> \o rest
            ELSE <<it>> \o rest

\* Session::Session, with the message callback PacketHandler's constructor
\* installs; no gap callback is installed until set_gap_callback
SessInit ==
    /\ session_id_ = NoSession
    /\ expected_sequence_ = 1
    /\ state_ = "Unknown"
    /\ pending_gaps_ = <<>>
    /\ packets_received_ = 0
    /\ messages_received_ = 0
    /\ gaps_detected_ = 0
    /\ heartbeats_received_ = 0
    /\ gap_callback_ = FALSE
    /\ message_callback_ = TRUE
    /\ s_op = "construct"
    /\ pkt_in = ShortPacket
    /\ s_ret = TRUE
    /\ calls = <<>>
    /\ inOrderRun = TRUE
    /\ runSum = 0
    /\ runLog = <<>>
    /\ observed = <<>>
    /\ declared = 1

\* Session::has_gaps
has_gaps == pending_gaps_ # <<>>

\* a packet that continues a run of complete in-order packets of one session
ContinuesRun(pkt) ==
    /\ inOrderRun
    /\ ~pkt.short
    /\ state_ = "Unknown" \/ pkt.session = session_id_
    /\ pkt.message_count >= 1
    /\ pkt.nblocks = pkt.message_count /\ pkt.extra = 0
    /\ pkt.sequence_number = 1 + runSum

\* the gap test written with >= instead of >
IsGap_OffByOne(seq, expected) == Ge64(seq, expected)

\* if (header.sequence_number > expected_sequence_)
IsGap(seq, expected) == Gt64(seq, expected)

\* a gap that ends at the arriving sequence number instead of just below it
NewGap_EndAtSeq(seq, expected) ==
    [start |-> expected, end |-> seq, detected_at_ns |-> 0]

\* Gap gap; gap.start = expected_sequence_; gap.end = header.sequence_number - 1;
NewGap(seq, expected) ==
    [start |-> expected, end |-> Sub64(seq, 1), detected_at_ns |-> 0]

\* the update of expected_sequence_ without the comparison
AdvanceExpected_Always(seq, message_count, expected) == Add64(seq, message_count)

\* the update of expected_sequence_ to the last sequence number of the packet
AdvanceExpected_LastSequence(seq, message_count, expected) ==
    LET next_expected == Sub64(Add64(seq, message_count), 1)
    IN IF Gt64(next_expected, expected) THEN next_expected ELSE expected

\* SequenceNumber next_expected = header.sequence_number + header.message_count;
\* if (next_expected > expected_sequence_) expected_sequence_ = next_expected;
AdvanceExpected(seq, message_count, expected) ==
    LET next_expected == Add64(seq, message_count)
    IN IF Gt64(next_expected, expected) THEN next_expected ELSE expected

\* the length test of parse written against the header without its count
ParseFails_WithoutCount(len) == len < HeaderSize - 2

\* HeaderParser::parse: if (len < sizeof(Header)) return false;
ParseFails(len) == len < HeaderSize

\* the identifier compared only while the session is Active
SessionMismatch_OnlyWhenActive(state, adopted, session) ==
    state = "Active" /\ adopted # session

\* state_ != Unknown and memcmp(session_id_, header.session, 10) != 0
SessionMismatch(state, adopted, session) ==
    state # "Unknown" /\ adopted # session

\* the state left Stale after the last gap is filled
SettleState_Never(state, gaps) == state

\* a Stale session made Active while one gap is still pending
SettleState_OneGapLeft(state, gaps) ==
    IF state = "Stale" /\ Len(gaps) <= 1 THEN "Active" ELSE state

\* if (state_ == SessionState::Stale && pending_gaps_.empty()) state_ = Active;
SettleState(state, gaps) ==
    IF state = "Stale" /\ gaps = <<>> THEN "Active" ELSE state

\* the end of the range handed to check_gap_fill taken one too far
FillEnd_OnePast(seq, message_count) == Add64(seq, message_count)

\* header.sequence_number + header.message_count - 1
FillEnd(seq, message_count) == Sub64(Add64(seq, message_count), 1)

\* the larger of two sequence numbers, as unsigned 64-bit values
Max64(a, b) == IF Gt64(a, b) THEN a ELSE b

\* the state process_packet leaves behind, as a record of the members
ProcessPacketResult(pkt) ==
    LET len == PacketLen(pkt)
        cur == [session_id |-> session_id_, expected |-> expected_sequence_,
                state |-> state_, gaps |-> pending_gaps_,
                packets |-> packets_received_, messages |-> messages_received_,
                ngaps |-> gaps_detected_, heartbeats |-> heartbeats_received_,
                ret |-> FALSE, calls |-> <<>>]
    IN
    IF ParseFails(len) THEN cur
    ELSE
    LET counted == [cur EXCEPT !.packets = @ + 1]
        mismatch == SessionMismatch(state_, session_id_, pkt.session)
        adopted == IF state_ = "Unknown"
                   THEN [counted EXCEPT !.session_id = pkt.session, !.state = "Active"]
                   ELSE counted
    IN
    IF mismatch THEN [counted EXCEPT !.state = "Error"]
    ELSE IF is_heartbeat(pkt) THEN [adopted EXCEPT !.heartbeats = @ + 1, !.ret = TRUE]
    ELSE IF is_end_of_session(pkt) THEN [adopted EXCEPT !.state = "EndOfSession", !.ret = TRUE]
    ELSE
    LET seq == pkt.sequence_number
        gap == NewGap(seq, expected_sequence_)
        classified ==
            IF IsGap(seq, expected_sequence_)
            THEN [adopted EXCEPT !.gaps = Append(@, gap),
                                 !.ngaps = @ + 1,
                                 !.state = "Stale",
                                 !.calls = IF gap_callback_ THEN <<GapEvent(gap)>> ELSE <<>>]
            ELSE IF Lt64(seq, expected_sequence_)
            THEN [adopted EXCEPT !.gaps =
                     check_gap_fill(@, seq, FillEnd(seq, pkt.message_count))]
            ELSE adopted
        msgs == MessageLoop(0, HeaderSize, seq, len, pkt.message_count, <<>>)
        dispatched ==
            IF message_callback_
            THEN [classified EXCEPT !.calls = @ \o msgs, !.messages = @ + Len(msgs)]
            ELSE [classified EXCEPT !.messages = @ + pkt.message_count]
        advanced ==
            [dispatched EXCEPT !.expected =
                AdvanceExpected(seq, pkt.message_count, expected_sequence_)]
        settled ==
            [advanced EXCEPT !.state = SettleState(advanced.state, advanced.gaps)]
    IN [settled EXCEPT !.ret = TRUE]

\* Session::process_packet
SessionProcessPacket(pkt) ==
    /\ \E r \in {ProcessPacketResult(pkt)} :
          /\ session_id_' = r.session_id
          /\ expected_sequence_' = r.expected
          /\ state_' = r.state
          /\ pending_gaps_' = r.gaps
          /\ packets_received_' = r.packets
          /\ messages_received_' = r.messages
          /\ gaps_detected_' = r.ngaps
          /\ heartbeats_received_' = r.heartbeats
          /\ s_op' = "process_packet"
          /\ pkt_in' = pkt
          /\ s_ret' = r.ret
          /\ calls' = r.calls
          /\ inOrderRun' = ContinuesRun(pkt)
          /\ runSum' = IF ContinuesRun(pkt) THEN runSum + pkt.message_count ELSE 0
          /\ runLog' = IF ContinuesRun(pkt)
                       THEN runLog \o [i \in 1 .. Len(r.calls) |-> r.calls[i].seq]
                       ELSE <<>>
          /\ LET data == /\ r.ret
                          /\ ~(pkt.sequence_number = 0 /\ pkt.message_count = 0)
                          /\ pkt.sequence_number # END_OF_SESSION
                 seqs == {r.calls[i].seq :
                             i \in {j \in 1 .. Len(r.calls) : r.calls[j].kind = "msg"}}
                 all == seqs \cup {observed[i] : i \in 1 .. Len(observed)}
             IN /\ observed' = IF data /\ all # {}
                                THEN <<CHOOSE m \in all : \A n \in all : Ge64(m, n)>>
                                ELSE observed
                /\ declared' = IF data
                                THEN Max64(declared, pkt.sequence_number + pkt.message_count)
                                ELSE declared
    /\ UNCHANGED <<gap_callback_, message_callback_>>

\* Session::process_packet, called by the owner of a session
process_packet ==
    /\ packets_received_ < MaxPackets
    /\ \E pkt \in Packets : SessionProcessPacket(pkt)
    /\ UNCHANGED allRingVars

\* the message loop of process_retransmission: the callbacks it makes
RECURSIVE RetransmissionLoop(_, _, _, _, _, _)
RetransmissionLoop(i, offset, current_seq, len, message_count, acc) ==
    IF ~(i < message_count /\ offset < len) THEN acc
    ELSE LET msg_len == MsgLen
             body == offset + MessageBlockSize
         IN IF body + msg_len > len THEN acc
            ELSE RetransmissionLoop(i + 1, body + msg_len, Add64(current_seq, 1), len,
                                    message_count, Append(acc, MsgEvent(current_seq, i)))

\* the arguments of a process_retransmission call, as a packet without a
\* session identifier: start_seq, message_count and that many complete blocks
Retransmission(start_seq, message_count) ==
    [short |-> FALSE, session |-> NoSession, sequence_number |-> start_seq,
     message_count |-> message_count, nblocks |-> message_count, extra |-> 0]

\* process_retransmission without its final test of the pending gaps
process_retransmission_NoSettle ==
    \E start_seq \in SeqValues, message_count \in 0 .. MaxCount :
       \E gaps \in {check_gap_fill(pending_gaps_, start_seq,
                                    Sub64(Add64(start_seq, message_count), 1))} :
          /\ pending_gaps_' = gaps
          /\ calls' = IF message_callback_
                       THEN RetransmissionLoop(0, 0, start_seq,
                                message_count * (MessageBlockSize + MsgLen),
                                message_count, <<>>)
                       ELSE <<>>
          /\ state_' = state_
          /\ s_op' = "process_retransmission"
          /\ pkt_in' = Retransmission(start_seq, message_count)
          /\ s_ret' = TRUE
          /\ inOrderRun' = FALSE
          /\ runSum' = 0
          /\ runLog' = <<>>
          /\ UNCHANGED <<observed, declared>>
          /\ UNCHANGED <<session_id_, expected_sequence_, packets_received_,
                         messages_received_, gaps_detected_, heartbeats_received_,
                         gap_callback_, message_callback_>>
          /\ UNCHANGED allRingVars

\* Session::process_retransmission, on message_count complete blocks
process_retransmission ==
    \E start_seq \in SeqValues, message_count \in 0 .. MaxCount :
       \E gaps \in {check_gap_fill(pending_gaps_, start_seq,
                                    Sub64(Add64(start_seq, message_count), 1))} :
          /\ pending_gaps_' = gaps
          /\ calls' = IF message_callback_
                       THEN RetransmissionLoop(0, 0, start_seq,
                                message_count * (MessageBlockSize + MsgLen),
                                message_count, <<>>)
                       ELSE <<>>
          /\ state_' = IF gaps = <<>> THEN "Active" ELSE state_
          /\ s_op' = "process_retransmission"
          /\ pkt_in' = Retransmission(start_seq, message_count)
          /\ s_ret' = TRUE
          /\ inOrderRun' = FALSE
          /\ runSum' = 0
          /\ runLog' = <<>>
          /\ UNCHANGED <<observed, declared>>
          /\ UNCHANGED <<session_id_, expected_sequence_, packets_received_,
                         messages_received_, gaps_detected_, heartbeats_received_,
                         gap_callback_, message_callback_>>
          /\ UNCHANGED allRingVars

\* Session::set_gap_callback
set_gap_callback ==
    /\ ~gap_callback_
    /\ gap_callback_' = TRUE
    /\ UNCHANGED <<session_id_, expected_sequence_, state_, pending_gaps_,
                   packets_received_, messages_received_, gaps_detected_,
                   heartbeats_received_, message_callback_>>
    /\ UNCHANGED callVars
    /\ UNCHANGED allRingVars

\* reset leaving the pending gaps and the gap counter behind
reset_KeepsGaps ==
    /\ expected_sequence_' = 1
    /\ state_' = "Unknown"
    /\ UNCHANGED <<pending_gaps_, gaps_detected_>>
    /\ packets_received_' = 0
    /\ messages_received_' = 0
    /\ heartbeats_received_' = 0
    /\ UNCHANGED <<session_id_, gap_callback_, message_callback_>>
    /\ s_op' = "reset"
    /\ pkt_in' = ShortPacket
    /\ s_ret' = TRUE
    /\ calls' = <<>>
    /\ inOrderRun' = TRUE
    /\ runSum' = 0
    /\ runLog' = <<>>
    /\ observed' = <<>>
    /\ declared' = 1
    /\ UNCHANGED allRingVars

\* Session::reset
reset ==
    /\ expected_sequence_' = 1
    /\ state_' = "Unknown"
    /\ pending_gaps_' = <<>>
    /\ packets_received_' = 0
    /\ messages_received_' = 0
    /\ gaps_detected_' = 0
    /\ heartbeats_received_' = 0
    /\ UNCHANGED <<session_id_, gap_callback_, message_callback_>>
    /\ s_op' = "reset"
    /\ pkt_in' = ShortPacket
    /\ s_ret' = TRUE
    /\ calls' = <<>>
    /\ inOrderRun' = TRUE
    /\ runSum' = 0
    /\ runLog' = <<>>
    /\ observed' = <<>>
    /\ declared' = 1
    /\ UNCHANGED allRingVars

\* ======================================================================
\* itch5::Parser, and the PacketHandler that owns one
\* ======================================================================
\* msg_type: the kinds whose parse_* helper normalizes an order event
OrderKinds == {"A", "F", "E", "C", "X", "D", "U", "P"}

\* msg_type: the kinds parse_message only counts
AdminKinds ==
    {"S", "R", "H", "Y", "L", "V", "W", "K", "J", "h", "Q", "B", "I", "N"}

Kinds == OrderKinds \cup AdminKinds

\* a first byte outside the table (test_unknown_message)
UnknownCodes == {"Z"}

\* get_message_size: sizeof of the packed struct of the kind, 0 by default
get_message_size(msg_type) ==
    CASE msg_type = "S" -> 12
      [] msg_type = "R" -> 39
      [] msg_type = "H" -> 25
      [] msg_type = "Y" -> 20
      [] msg_type = "L" -> 26
      [] msg_type = "V" -> 35
      [] msg_type = "W" -> 12
      [] msg_type = "K" -> 28
      [] msg_type = "J" -> 35
      [] msg_type = "h" -> 21
      [] msg_type = "A" -> 36
      [] msg_type = "F" -> 40
      [] msg_type = "E" -> 31
      [] msg_type = "C" -> 36
      [] msg_type = "X" -> 23
      [] msg_type = "D" -> 19
      [] msg_type = "U" -> 35
      [] msg_type = "P" -> 44
      [] msg_type = "Q" -> 40
      [] msg_type = "B" -> 19
      [] msg_type = "I" -> 50
      [] msg_type = "N" -> 20
      [] OTHER -> 0

\* Parser::Stats, value-initialized
NoStats ==
    [total_messages |-> 0, add_orders |-> 0, order_executed |-> 0,
     order_deleted |-> 0, order_cancelled |-> 0, order_replaced |-> 0,
     trades |-> 0, other_messages |-> 0, unknown_messages |-> 0]

\* the counter the parse_* helper of an order kind increments
HelperCounter(msg_type) ==
    CASE msg_type \in {"A", "F"} -> "add_orders"
      [] msg_type \in {"E", "C"} -> "order_executed"
      [] msg_type = "X" -> "order_cancelled"
      [] msg_type = "D" -> "order_deleted"
      [] msg_type = "U" -> "order_replaced"
      [] msg_type = "P" -> "trades"

\* the kinds for which setup_parser_callbacks installs a callback
ParserCallbacks == {"A", "E", "D", "X", "U", "P"}

\* norm.type as the callback of the kind sets it
MessageTypeOf(msg_type) ==
    CASE msg_type = "A" -> "AddOrder"
      [] msg_type = "E" -> "OrderExecuted"
      [] msg_type = "D" -> "OrderDelete"
      [] msg_type = "X" -> "OrderCancel"
      [] msg_type = "U" -> "OrderReplace"
      [] msg_type = "P" -> "Trade"

\* a message as the bytes handed to parse_message show it: the kind code in
\* its first byte, the length handed over with it, and the order reference
\* number it carries
Message(kind, len, ref) == [kind |-> kind, len |-> len, ref |-> ref]

\* the NormalizedMessage a callback of setup_parser_callbacks builds
Normalized(msg) == [type |-> MessageTypeOf(msg.kind), order_ref |-> msg.ref]

\* the length test of parse_message letting a message one byte short through
Incomplete_OffByOne(len, expected_size) == len + 1 < expected_size

\* if (len < expected_size) return 0;
Incomplete(len, expected_size) == len < expected_size

\* the switch of parse_message counting every kind as an order kind would
CountKind_AdminAsTrade(stats, msg_type) ==
    IF msg_type \in OrderKinds
    THEN [stats EXCEPT ![HelperCounter(msg_type)] = @ + 1]
    ELSE [stats EXCEPT !.trades = @ + 1]

\* the switch of parse_message: the helper of an order kind, other_messages
\* for the administrative kinds, unknown_messages by default
CountKind(stats, msg_type) ==
    IF msg_type \in OrderKinds
    THEN [stats EXCEPT ![HelperCounter(msg_type)] = @ + 1]
    ELSE IF msg_type \in AdminKinds
    THEN [stats EXCEPT !.other_messages = @ + 1]
    ELSE [stats EXCEPT !.unknown_messages = @ + 1]

\* if (..._cb_) ..._cb_(msg, ...): the records the callback of the kind, when
\* one is installed, hands to push_message
Callback(msg) ==
    IF msg.kind \in ParserCallbacks THEN <<Normalized(msg)>> ELSE <<>>

\* Parser::parse_message: bytes consumed, the counters it leaves, and the
\* records its callback handed to push_message
ParseMessageResult(stats, msg) ==
    LET none == [ret |-> 0, stats |-> stats, records |-> <<>>]
        expected_size == get_message_size(msg.kind)
    IN IF msg.len < 1 THEN none
       ELSE IF expected_size = 0 THEN none
       ELSE IF Incomplete(msg.len, expected_size) THEN none
       ELSE [ret |-> expected_size,
             stats |-> [CountKind(stats, msg.kind) EXCEPT !.total_messages = @ + 1],
             records |-> Callback(msg)]

\* PacketHandler::PacketHandler and FeedHandler::FeedHandler: no call made,
\* no thread started
PipeInit ==
    /\ stats_ = NoStats
    /\ packets_processed_ = 0
    /\ bytes_processed_ = 0
    /\ invalid_packets_ = 0
    /\ messages_pushed_ = 0
    /\ buffer_full_count_ = 0
    /\ h_pc = "idle"
    /\ h_op = "none"
    /\ h_in = [msgs |-> <<>>, len |-> 0]
    /\ h_todo = <<>>
    /\ h_ok = FALSE
    /\ messages_processed = 0
    /\ parsed = 0
    /\ h_ret = NoResult
    /\ running_ = FALSE
    /\ total_messages_processed_ = 0
    /\ c_loop = "not_started"
    /\ h_calls = 0
    /\ parse_log = <<>>
    /\ offered = <<>>
    /\ h_before = [total_messages |-> 0, offered |-> 0]
    /\ stop_pushed = 0

\* ------------------------------------------------- the producer's steps
\* parser_.parse_message(data, length) on the next message of the call in
\* progress; a callback that fires builds its record and enters
\* push_message, whose try_push the producer then runs step by step
ParseNext ==
    /\ h_pc = "loop"
    /\ p_pc = "idle"
    /\ h_todo # <<>>
    /\ \E r \in {ParseMessageResult(stats_, Head(h_todo))} :
          /\ stats_' = r.stats
          /\ parsed' = r.ret
          /\ messages_processed' =
                IF h_op = "process_itch_file_data" /\ r.ret > 0
                THEN messages_processed + 1
                ELSE messages_processed
          /\ IF r.records # <<>>
             THEN /\ offered' = Append(offered, r.records[1])
                  /\ p_item' = T(r.records[1])
                  /\ p_pc' = "push_load_head"
                  /\ p_ret' = FALSE
                  /\ p_steps' = 0
                  /\ p_popsAtCall' = Len(popped)
             ELSE UNCHANGED <<offered, p_item, p_pc, p_ret, p_steps, p_popsAtCall>>
    /\ parse_log' = Append(parse_log, Head(h_todo))
    /\ h_todo' = Tail(h_todo)
    /\ UNCHANGED <<packets_processed_, bytes_processed_, invalid_packets_,
                   messages_pushed_, buffer_full_count_>>
    /\ UNCHANGED <<h_pc, h_op, h_in, h_ok, h_ret, h_calls, h_before>>
    /\ UNCHANGED <<current_head, next_head, p_i>>
    /\ UNCHANGED <<pushed, popped, lastPeek, testVars>>
    /\ UNCHANGED <<ringVars, consVars, feedVars, sessVars, callVars>>

\* push_message that offers the record again until the ring takes it
PushMessageReturn_Retries ==
    /\ h_pc = "loop"
    /\ p_pc = "push_ret"
    /\ IF p_ret
       THEN /\ messages_pushed_' = messages_pushed_ + 1
            /\ p_pc' = "idle"
       ELSE /\ messages_pushed_' = messages_pushed_
            /\ p_pc' = "push_load_head"
    /\ UNCHANGED buffer_full_count_
    /\ UNCHANGED <<stats_, packets_processed_, bytes_processed_, invalid_packets_>>
    /\ UNCHANGED <<current_head, next_head, p_item, p_ret, p_i, p_steps>>
    /\ UNCHANGED <<ringVars, consVars, histVars, handVars, feedVars, sessVars, callVars>>

\* push_message counting a dropped record as pushed
PushMessageReturn_CountsDropped ==
    /\ h_pc = "loop"
    /\ p_pc = "push_ret"
    /\ messages_pushed_' = messages_pushed_ + 1
    /\ buffer_full_count_' = IF p_ret THEN buffer_full_count_ ELSE buffer_full_count_ + 1
    /\ p_pc' = "idle"
    /\ UNCHANGED <<stats_, packets_processed_, bytes_processed_, invalid_packets_>>
    /\ UNCHANGED <<current_head, next_head, p_item, p_ret, p_i, p_steps>>
    /\ UNCHANGED <<ringVars, consVars, histVars, handVars, feedVars, sessVars, callVars>>

\* push_message taking a dropped record back out of the parser's counters
PushMessageReturn_UncountsDropped ==
    /\ h_pc = "loop"
    /\ p_pc = "push_ret"
    /\ IF p_ret
       THEN /\ messages_pushed_' = messages_pushed_ + 1
            /\ buffer_full_count_' = buffer_full_count_
            /\ stats_' = stats_
       ELSE /\ buffer_full_count_' = buffer_full_count_ + 1
            /\ messages_pushed_' = messages_pushed_
            /\ stats_' = [stats_ EXCEPT !.total_messages = @ - 1]
    /\ p_pc' = "idle"
    /\ UNCHANGED <<packets_processed_, bytes_processed_, invalid_packets_>>
    /\ UNCHANGED <<current_head, next_head, p_item, p_ret, p_i, p_steps>>
    /\ UNCHANGED <<ringVars, consVars, histVars, handVars, feedVars, sessVars, callVars>>

\* PacketHandler::push_message, once its one try_push has returned:
\* if (!try_push(msg)) ++buffer_full_count_; else ++messages_pushed_;
PushMessageReturn ==
    /\ h_pc = "loop"
    /\ p_pc = "push_ret"
    /\ IF p_ret
       THEN /\ messages_pushed_' = messages_pushed_ + 1
            /\ buffer_full_count_' = buffer_full_count_
       ELSE /\ buffer_full_count_' = buffer_full_count_ + 1
            /\ messages_pushed_' = messages_pushed_
    /\ p_pc' = "idle"
    /\ UNCHANGED <<stats_, packets_processed_, bytes_processed_, invalid_packets_>>
    /\ UNCHANGED <<current_head, next_head, p_item, p_ret, p_i, p_steps>>
    /\ UNCHANGED <<ringVars, consVars, histVars, handVars, feedVars, sessVars, callVars>>

\* the try_push of the push_message in progress
PushMessageTryPush ==
    /\ h_pc = "loop"
    /\ try_push
    /\ UNCHANGED <<sessVars, callVars, pipeVars>>

\* ---------------------------------------- process_itch_file_data (file mode)
\* a stream is the bytes of its messages, each behind a 2-byte big-endian
\* length prefix, cut off after len bytes
LengthPrefix == 2

RECURSIVE StreamBytes(_)
StreamBytes(msgs) ==
    IF msgs = <<>> THEN 0
    ELSE LengthPrefix + Head(msgs).len + StreamBytes(Tail(msgs))

\* the lengths a message of the kind is announced with: one byte short of
\* its struct, exact, one byte over (32 bytes of an unknown code, as in
\* test_unknown_message, or a single byte)
LengthsOf(kind) ==
    IF kind \in Kinds
    THEN {get_message_size(kind) - 1, get_message_size(kind),
          get_message_size(kind) + 1}
    ELSE {1, 32}

\* streams of one message of any kind and any of its lengths
OneMessageStreams ==
    {[msgs |-> <<Message(kind, len, 1)>>, len |-> LengthPrefix + len] :
        <<kind, len>> \in
            UNION {{<<k, l>> : l \in LengthsOf(k)} : k \in Kinds \cup UnknownCodes}}

\* the kinds of the longer streams: an order kind, an administrative one
\* and an unknown code
StreamKinds == {"A", "S", "Z"}

\* complete messages of these kinds, numbered in stream order
MessagesOf(kinds) ==
    [i \in 1 .. Len(kinds) |->
        Message(kinds[i],
                IF kinds[i] \in Kinds THEN get_message_size(kinds[i]) ELSE 32, i)]

\* how much of the end of a stream is missing: nothing, the last byte, all
\* but the length prefix of the last message, all but one byte of that prefix
Cuts(msgs) ==
    {0, 1, msgs[Len(msgs)].len, msgs[Len(msgs)].len + 1}

LongStreams ==
    UNION {{[msgs |-> MessagesOf(kinds), len |-> StreamBytes(MessagesOf(kinds)) - cut] :
                cut \in Cuts(MessagesOf(kinds))} :
           kinds \in UNION {[1 .. n -> StreamKinds] : n \in 2 .. MaxStream}}

Streams == OneMessageStreams \cup LongStreams

\* the test that breaks out of the loop taken for a message that ends
\* exactly at the end of the data as well
FitsInData_Strict(body, msg_len, len) == body + msg_len < len

\* if (offset + msg_len > len) break;   (negated)
FitsInData(body, msg_len, len) == ~(body + msg_len > len)

\* the loop of process_itch_file_data: the messages it hands to the parser
RECURSIVE FileLoop(_, _, _, _)
FileLoop(msgs, offset, len, acc) ==
    IF ~(offset + LengthPrefix < len) \/ msgs = <<>> THEN acc
    ELSE LET msg_len == Head(msgs).len
             body == offset + LengthPrefix
         IN IF ~FitsInData(body, msg_len, len) THEN acc
            ELSE FileLoop(Tail(msgs), body + msg_len, len, Append(acc, Head(msgs)))

\* PacketHandler::process_itch_file_data, entered
ProcessItchFileDataCall ==
    /\ h_pc = "idle"
    /\ \E stream \in Streams :
          /\ h_in' = stream
          /\ h_todo' = FileLoop(stream.msgs, 0, stream.len, <<>>)
    /\ h_pc' = "loop"
    /\ h_op' = "process_itch_file_data"
    /\ messages_processed' = 0
    /\ parse_log' = <<>>
    /\ h_calls' = h_calls + 1
    /\ h_before' = [total_messages |-> stats_.total_messages,
                    offered |-> Len(offered)]
    /\ UNCHANGED <<h_ok, parsed, h_ret, offered>>
    /\ UNCHANGED <<allRingVars, statVars, feedVars, sessVars, callVars>>

\* return messages_processed;
ProcessItchFileDataReturn ==
    /\ h_pc = "loop"
    /\ h_op = "process_itch_file_data"
    /\ p_pc = "idle"
    /\ h_todo = <<>>
    /\ h_pc' = "idle"
    /\ h_ret' = [count |-> messages_processed]
    /\ UNCHANGED <<h_op, h_in, h_todo, h_ok, messages_processed, parsed,
                   h_calls, parse_log, offered, h_before>>
    /\ UNCHANGED <<allRingVars, statVars, feedVars, sessVars, callVars>>

process_itch_file_data ==
    \/ ProcessItchFileDataCall
    \/ ParseNext
    \/ PushMessageTryPush
    \/ PushMessageReturn
    \/ ProcessItchFileDataReturn

\* ------------------------------------------ process_raw_packet (frame mode)
\* header_sizes
ETHERNET == 14

IPV4 == 20

UDP == 8

MOLDUDP64 == 20

TOTAL_MIN == ETHERNET + IPV4 + UDP + MOLDUDP64

IP_PROTO_UDP == 17

ETHER_TYPE_IPV4 == 2048

\* get_ip_header_length, on the low nibble of version_ihl
get_ip_header_length(ihl) == ihl * 4

\* the sequence numbers of the packets fed through the handler: the first
\* one and the one after a full packet
FeedSeqs == {1, 1 + MaxCount}

FeedPackets == {pkt \in Packets : pkt.sequence_number \in FeedSeqs}

\* the kinds of the messages in the blocks: one with a callback, one without
FeedKinds == {"A", "S"}

\* a MoldUDP64 packet together with the kind of the message in each block
FeedPayloads ==
    UNION {{[pkt |-> pkt, kinds |-> kinds] : kinds \in [1 .. pkt.nblocks -> FeedKinds]} :
           pkt \in FeedPackets}

\* an Ethernet/IPv4/UDP frame around a payload; ihl words of IPv4 header
Frame(ihl, payload) ==
    [len |-> ETHERNET + get_ip_header_length(ihl) + UDP + PacketLen(payload.pkt),
     ether_type |-> ETHER_TYPE_IPV4, ihl |-> ihl, protocol |-> IP_PROTO_UDP,
     payload |-> payload]

\* an empty data packet: header only
HeaderOnly ==
    [pkt |-> [short |-> FALSE, session |-> 1, sequence_number |-> 1,
              message_count |-> 0, nblocks |-> 0, extra |-> 0],
     kinds |-> <<>>]

\* a frame of another ether type, a frame of another protocol, a frame with
\* one word of IP options around a payload shorter than a MoldUDP64 header,
\* and a 62-byte frame whose IHL announces a 60-byte IPv4 header
NotIPv4Frame == [Frame(5, HeaderOnly) EXCEPT !.ether_type = ETHER_TYPE_IPV4 + 1]

NotUDPFrame == [Frame(5, HeaderOnly) EXCEPT !.protocol = IP_PROTO_UDP + 1]

ShortPayloadFrame == Frame(6, [pkt |-> ShortPacket, kinds |-> <<>>])

OverrunFrame == [Frame(5, HeaderOnly) EXCEPT !.ihl = 15]

\* frames without IP options around every payload (the one around the short
\* payload is shorter than TOTAL_MIN), and the four above
Frames ==
    {Frame(5, payload) : payload \in FeedPayloads}
    \cup {NotIPv4Frame, NotUDPFrame, ShortPayloadFrame, OverrunFrame}

\* if (len < header_sizes::TOTAL_MIN)
TooShort(len) == len < TOTAL_MIN

\* the frame passes the three checks made before the session is called
PassesChecks(frame) ==
    /\ ~TooShort(frame.len)
    /\ frame.ether_type = ETHER_TYPE_IPV4
    /\ frame.protocol = IP_PROTO_UDP

\* offset after offset += sizeof(EthernetHeader); offset += ip_hdr_len;
\* offset += sizeof(UDPHeader);
PayloadOffset(frame) == ETHERNET + get_ip_header_length(frame.ihl) + UDP

\* what session_.process_packet(data + offset, len - offset) reads: the
\* payload of the frame when offset <= len; otherwise len - offset wraps and
\* the session reads past the end of the frame, whatever bytes lie there
PayloadSeen(frame) ==
    IF PayloadOffset(frame) <= frame.len THEN {frame.payload} ELSE FeedPayloads

\* the blocks of a packet handed over last block first
BlockMessages_Reversed(kinds, cs) ==
    LET msgs == SelectSeq(cs, LAMBDA c : c.kind = "msg")
    IN [i \in 1 .. Len(msgs) |->
           Message(kinds[msgs[Len(msgs) + 1 - i].block + 1], MsgLen,
                   msgs[Len(msgs) + 1 - i].seq)]

\* the messages the session's message callback hands to parse_itch_message,
\* each with the length of its block and its sequence number as reference
BlockMessages(kinds, cs) ==
    LET msgs == SelectSeq(cs, LAMBDA c : c.kind = "msg")
    IN [i \in 1 .. Len(msgs) |->
           Message(kinds[msgs[i].block + 1], MsgLen, msgs[i].seq)]

\* PacketHandler::process_raw_packet, entered: the checks, and the session's
\* process_packet up to its first message callback
ProcessRawPacketCall ==
    /\ h_pc = "idle"
    /\ \E frame \in Frames :
          /\ h_in' = frame
          /\ IF PassesChecks(frame)
             THEN \E seen \in PayloadSeen(frame) :
                     /\ SessionProcessPacket(seen.pkt)
                     /\ h_ok' = s_ret'
                     /\ h_todo' = BlockMessages(seen.kinds, calls')
             ELSE /\ h_ok' = FALSE
                  /\ h_todo' = <<>>
                  /\ UNCHANGED <<sessVars, callVars>>
    /\ h_pc' = "loop"
    /\ h_op' = "process_raw_packet"
    /\ parse_log' = <<>>
    /\ h_calls' = h_calls + 1
    /\ h_before' = [total_messages |-> stats_.total_messages,
                    offered |-> Len(offered)]
    /\ UNCHANGED <<messages_processed, parsed, h_ret, offered>>
    /\ UNCHANGED <<allRingVars, statVars, feedVars>>

\* the read past the end of the frame faults: the call never returns
ProcessRawPacketFault ==
    /\ h_pc = "idle"
    /\ \E frame \in Frames :
          /\ PassesChecks(frame)
          /\ PayloadOffset(frame) > frame.len
          /\ h_in' = frame
    /\ h_pc' = "faulted"
    /\ h_op' = "process_raw_packet"
    /\ h_calls' = h_calls + 1
    /\ UNCHANGED <<h_todo, h_ok, messages_processed, parsed, h_ret, parse_log,
                   offered, h_before>>
    /\ UNCHANGED <<allRingVars, statVars, feedVars, sessVars, callVars>>

\* process_raw_packet counting every packet as processed
ProcessRawPacketReturn_AlwaysProcessed ==
    /\ h_pc = "loop"
    /\ h_op = "process_raw_packet"
    /\ p_pc = "idle"
    /\ h_todo = <<>>
    /\ packets_processed_' = packets_processed_ + 1
    /\ bytes_processed_' = bytes_processed_ + h_in.len
    /\ invalid_packets_' = invalid_packets_
    /\ h_ret' = [bool |-> h_ok]
    /\ h_pc' = "idle"
    /\ UNCHANGED <<stats_, messages_pushed_, buffer_full_count_>>
    /\ UNCHANGED <<h_op, h_in, h_todo, h_ok, messages_processed, parsed,
                   h_calls, parse_log, offered, h_before>>
    /\ UNCHANGED <<allRingVars, feedVars, sessVars, callVars>>

\* ++invalid_packets_; return false;   or
\* ++packets_processed_; bytes_processed_ += len; return true;
ProcessRawPacketReturn ==
    /\ h_pc = "loop"
    /\ h_op = "process_raw_packet"
    /\ p_pc = "idle"
    /\ h_todo = <<>>
    /\ IF h_ok
       THEN /\ packets_processed_' = packets_processed_ + 1
            /\ bytes_processed_' = bytes_processed_ + h_in.len
            /\ invalid_packets_' = invalid_packets_
       ELSE /\ invalid_packets_' = invalid_packets_ + 1
            /\ UNCHANGED <<packets_processed_, bytes_processed_>>
    /\ h_ret' = [bool |-> h_ok]
    /\ h_pc' = "idle"
    /\ UNCHANGED <<stats_, messages_pushed_, buffer_full_count_>>
    /\ UNCHANGED <<h_op, h_in, h_todo, h_ok, messages_processed, parsed,
                   h_calls, parse_log, offered, h_before>>
    /\ UNCHANGED <<allRingVars, feedVars, sessVars, callVars>>

process_raw_packet ==
    \/ ProcessRawPacketCall
    \/ ProcessRawPacketFault
    \/ ParseNext
    \/ PushMessageTryPush
    \/ PushMessageReturn
    \/ ProcessRawPacketReturn

\* ------------------------------------------------------------ FeedHandler
\* FeedHandler::start: running_.store(true); the consumer thread starts
start ==
    /\ ~running_
    /\ c_loop = "not_started"
    /\ running_' = TRUE
    /\ c_loop' = "outer"
    /\ UNCHANGED <<total_messages_processed_, stop_pushed>>
    /\ UNCHANGED <<allRingVars, statVars, handVars, sessVars, callVars>>

\* FeedHandler::stop: running_.store(false, release)
stop ==
    /\ running_
    /\ running_' = FALSE
    /\ stop_pushed' = Len(pushed)
    /\ UNCHANGED <<total_messages_processed_, c_loop>>
    /\ UNCHANGED <<allRingVars, statVars, handVars, sessVars, callVars>>

\* run_consumer leaving as soon as it sees the flag cleared
RunConsumerCheck_NoDrain ==
    /\ c_loop = "outer"
    /\ IF running_
       THEN /\ c_loop' = "inner"
            /\ c_op' = "try_pop" /\ c_pc' = "pop_load_tail"
       ELSE /\ c_loop' = "exited"
            /\ UNCHANGED <<c_op, c_pc>>
    /\ c_steps' = 0
    /\ UNCHANGED <<current_tail, c_head, c_item, c_ret, c_obs>>
    /\ UNCHANGED <<running_, total_messages_processed_, stop_pushed>>
    /\ UNCHANGED <<ringVars, prodVars, histVars, statVars, handVars, sessVars, callVars>>

\* while (running_.load(acquire)): the load, then the first try_pop of the
\* inner loop or, with the flag cleared, of the drain loop
RunConsumerCheck ==
    /\ c_loop = "outer"
    /\ c_loop' = IF running_ THEN "inner" ELSE "drain"
    /\ c_op' = "try_pop" /\ c_pc' = "pop_load_tail"
    /\ c_steps' = 0
    /\ UNCHANGED <<current_tail, c_head, c_item, c_ret, c_obs>>
    /\ UNCHANGED <<running_, total_messages_processed_, stop_pushed>>
    /\ UNCHANGED <<ringVars, prodVars, histVars, statVars, handVars, sessVars, callVars>>

\* the try_pop in progress in either loop
RunConsumerTryPop ==
    /\ c_loop \in {"inner", "drain"}
    /\ try_pop
    /\ UNCHANGED <<sessVars, callVars, pipeVars>>

\* while (auto msg = try_pop()) { process_message(*msg); ++messages_consumed; }
\* a record is processed and the loop tries again; nullopt ends the inner
\* loop, or ends the drain loop and with it the thread
RunConsumerPopReturn ==
    /\ c_loop \in {"inner", "drain"}
    /\ c_pc = "cons_ret"
    /\ IF c_ret.has_value
       THEN /\ total_messages_processed_' = total_messages_processed_ + 1
            /\ c_pc' = "pop_load_tail"
            /\ c_steps' = 0
            /\ c_loop' = c_loop
       ELSE /\ c_pc' = "idle"
            /\ c_loop' = IF c_loop = "inner" THEN "outer" ELSE "exited"
            /\ UNCHANGED <<total_messages_processed_, c_steps>>
    /\ UNCHANGED <<c_op, current_tail, c_head, c_item, c_ret, c_obs>>
    /\ UNCHANGED <<running_, stop_pushed>>
    /\ UNCHANGED <<ringVars, prodVars, histVars, statVars, handVars, sessVars, callVars>>

run_consumer ==
    \/ RunConsumerCheck
    \/ RunConsumerTryPop
    \/ RunConsumerPopReturn

\* ======================================================================
\* Specifications
\* ======================================================================
Init == RingInit /\ SessInit /\ PipeInit

\* the ring under one producer thread and one consumer thread
Next ==
    \/ Producer /\ UNCHANGED <<sessVars, callVars, pipeVars>>
    \/ Consumer /\ UNCHANGED <<sessVars, callVars, pipeVars>>

Spec == Init /\ [][Next]_vars

\* the ring under the two threads of test_concurrent_spsc
NextLive ==
    \/ TestProducer /\ UNCHANGED <<sessVars, callVars, pipeVars>>
    \/ TestConsumer /\ UNCHANGED <<sessVars, callVars, pipeVars>>

\* both threads are scheduled fairly
SpecLive ==
    /\ Init
    /\ [][NextLive]_vars
    /\ WF_vars(TestProducer /\ UNCHANGED <<sessVars, callVars, pipeVars>>)
    /\ WF_vars(TestConsumer /\ UNCHANGED <<sessVars, callVars, pipeVars>>)

\* the session decoder fed by its single owner
NextSession ==
    \/ process_packet /\ UNCHANGED pipeVars
    \/ set_gap_callback /\ UNCHANGED pipeVars
    \/ reset /\ UNCHANGED pipeVars

SpecSession == Init /\ [][NextSession]_vars

\* the session decoder with gap-fill data arriving out of band as well
NextRecovery ==
    \/ packets_received_ < MaxRecoveryPackets /\ process_packet /\ UNCHANGED pipeVars
    \/ process_retransmission /\ UNCHANGED pipeVars
    \/ set_gap_callback /\ UNCHANGED pipeVars
    \/ reset /\ UNCHANGED pipeVars

SpecRecovery == Init /\ [][NextRecovery]_vars

\* the session decoder of an owner that installs the gap callback before it
\* feeds the first packet (test_session_gap_detection), so that every pending
\* gap has been notified
NextNotified ==
    \/ gap_callback_ /\ process_packet /\ UNCHANGED pipeVars
    \/ set_gap_callback /\ UNCHANGED pipeVars
    \/ reset /\ UNCHANGED pipeVars

SpecNotified == Init /\ [][NextNotified]_vars

\* the PacketHandler fed raw ITCH data by a single thread
NextParser ==
    \/ h_calls < MaxFileCalls /\ ProcessItchFileDataCall
    \/ ParseNext
    \/ PushMessageTryPush
    \/ PushMessageReturn
    \/ ProcessItchFileDataReturn

SpecParser == Init /\ [][NextParser]_vars

\* the PacketHandler fed frames by the producer thread while the FeedHandler's
\* consumer thread drains the ring
NextHandler ==
    \/ h_calls < MaxFrames /\ ProcessRawPacketCall
    \/ h_calls < MaxFrames /\ ProcessRawPacketFault
    \/ ParseNext
    \/ PushMessageTryPush
    \/ PushMessageReturn
    \/ ProcessRawPacketReturn
    \/ start
    \/ stop
    \/ run_consumer

SpecHandler == Init /\ [][NextHandler]_vars

\* the FeedHandler's consumer thread against a producer of the ring
NextConsumer ==
    \/ Producer /\ UNCHANGED <<sessVars, callVars, pipeVars>>
    \/ start
    \/ stop
    \/ run_consumer

\* the consumer thread is scheduled fairly
SpecConsumer ==
    /\ Init
    /\ [][NextConsumer]_vars
    /\ WF_vars(run_consumer)

\* ======================================================================
\* Properties of the ring
\* ======================================================================
IsPrefix(s, t) ==
    /\ Len(s) <= Len(t)
    /\ \A i \in 1 .. Len(s) : s[i] = t[i]

\* slots holding a record that is published and not yet released
LiveSlots == {s \in Slots : (s - tail_) % Capacity < (head_ - tail_) % Capacity}

ProducerWriting == p_pc \in {"push_write0", "push_write1"}

ConsumerReading == c_pc \in {"pop_read0", "pop_read1", "peek_read0", "peek_read1"}

\* C1: the values returned by successful try_pop calls are, in order, a
\* prefix of the values passed to successful try_push calls, in every
\* interleaving of the loads and stores, across index wrap-around.
C1_FifoPrefix == IsPrefix(popped, pushed)

\* the indices have wrapped and records written after the wrap were popped
C1_Witness ==
    /\ Len(popped) > Capacity
    /\ popped[Len(popped)] = T(Len(popped) - 1)

\* C2: the consumer reads a slot only when that slot is published (inside
\* [tail, head)) and completely written, the producer writes only a slot
\* outside [tail, head), and the two never touch the same slot at once.
C2_NoSlotRace ==
    /\ ConsumerReading =>
          /\ current_tail \in LiveSlots
          /\ buffer_[current_tail] = pushed[Len(popped) + 1]
    /\ ProducerWriting => current_head \notin LiveSlots
    /\ (ProducerWriting /\ ConsumerReading) => current_head # current_tail

\* both threads are inside their slot copy at once, after the indices wrapped
C2_Witness ==
    /\ ProducerWriting
    /\ ConsumerReading
    /\ Len(pushed) >= Capacity

\* C3: at most Capacity-1 records are live; a try_push that starts while
\* fewer than Capacity-1 records are live succeeds (so the first Capacity-1
\* pushes on an empty ring succeed, and so does a push after a pop freed a
\* slot), and a try_push made while Capacity-1 records stay live fails.
PushedBeforeCall == Len(pushed) - (IF p_ret = TRUE THEN 1 ELSE 0)

C3_AtMostCapacityMinusOne ==
    /\ Live <= Capacity - 1
    /\ Cardinality(LiveSlots) = Live
    /\ p_pc = "push_ret" =>
          /\ (PushedBeforeCall - p_popsAtCall < Capacity - 1) => p_ret = TRUE
          /\ (PushedBeforeCall - Len(popped) = Capacity - 1) => p_ret = FALSE

\* Capacity-1 pushes succeeded, the next failed, one pop, and the push after
\* it has just succeeded
C3_Witness ==
    /\ p_pc = "push_ret"
    /\ p_ret = TRUE
    /\ p_i = Capacity
    /\ Len(pushed) = Capacity
    /\ Len(popped) = 1

\* C4: try_push fails exactly when Capacity-1 records are live at its load
\* of tail, try_pop returns nullopt exactly when no record is live at its
\* load of head, and the steps of a failing call (its two loads) write
\* neither head, nor tail, nor a slot.
C4_FailIffFullOrEmpty ==
    [][ /\ TryPushLoadTail =>
              ((p_ret' = FALSE /\ p_pc' = "push_ret") <=> (Live = Capacity - 1))
        /\ TryPopLoadHead => ((c_ret' = Nullopt /\ c_pc' = "cons_ret") <=> (Live = 0))
        /\ (p_pc' = "push_ret" /\ p_ret' = FALSE /\ p_pc # "push_ret") =>
              (p_steps' = 2 /\ UNCHANGED ringVars)
        /\ (c_op = "try_pop" /\ c_pc' = "cons_ret" /\ c_ret' = Nullopt /\ c_pc # "cons_ret") =>
              (c_steps' = 2 /\ UNCHANGED ringVars)
        /\ (TryPushLoadHead \/ TryPopLoadTail) => UNCHANGED ringVars
      ]_vars

\* a failed try_push and a failed try_pop have both returned
C4_Witness ==
    /\ p_pc = "push_ret" /\ p_ret = FALSE
    /\ c_pc = "cons_ret" /\ c_op = "try_pop" /\ c_ret = Nullopt
    /\ Live = Capacity - 1

\* C5: with the producer retrying each of the values 0 .. NUM_MESSAGES-1
\* until try_push accepts it and the consumer polling try_pop, under fair
\* scheduling the consumer has always received 0, 1, 2, ... in order without
\* repetition, and eventually both threads finish with every value received
\* and the ring empty.
AllValues == [i \in 1 .. NUM_MESSAGES |-> T(i - 1)]

C5_Finished ==
    /\ p_pc = "finished"
    /\ c_pc = "finished"
    /\ popped = AllValues
    /\ ~order_error
    /\ head_ = tail_

C5_EveryValueOnceInOrder ==
    /\ [](IsPrefix(popped, AllValues) /\ ~order_error)
    /\ <>[]C5_Finished

\* the run of the test is over: more values than slots went through the ring
C5_Witness ==
    /\ C5_Finished
    /\ Len(popped) > Capacity
    /\ last_consumed = NUM_MESSAGES

\* C6: every started call has a step of its own enabled whatever the other
\* thread does, no call takes more steps than its straight-line code has,
\* and a returned call took one of its fixed step counts.
InPush == p_pc \in {"push_load_head", "push_load_tail", "push_write0",
                    "push_write1", "push_store_head"}

InConsumerCall == c_pc \notin {"idle", "cons_ret"}

C6_WaitFree ==
    /\ InPush => ENABLED try_push
    /\ InConsumerCall => ENABLED (try_pop \/ peek \/ observers)
    /\ p_steps <= 5
    /\ c_steps <= 5
    /\ p_pc = "push_ret" => p_steps = (IF p_ret = TRUE THEN 5 ELSE 2)
    /\ (c_pc = "cons_ret" /\ c_op = "try_pop") =>
          c_steps = (IF c_ret.has_value THEN 5 ELSE 2)
    /\ (c_pc = "cons_ret" /\ c_op = "peek") =>
          c_steps = (IF c_ret.has_value THEN 4 ELSE 2)

\* a try_push that found the ring full has returned while the consumer sits
\* in the middle of a try_pop
C6_Witness ==
    /\ p_pc = "push_ret" /\ p_ret = FALSE
    /\ c_pc = "pop_read0"

\* C7: peek writes neither head, tail nor a slot; it returns nullopt exactly
\* when no record is live at its load of head and otherwise the oldest live
\* record; a second peek returns what the first returned, and so does the
\* next try_pop.
C7_PeekFrame ==
    [][ /\ peek => UNCHANGED ringVars
        /\ PeekLoadHead => ((c_ret' = Nullopt /\ c_pc' = "cons_ret") <=> (Live = 0))
        /\ PeekRead1 =>
              /\ c_ret' = Some(pushed[Len(popped) + 1])
              /\ lastPeek.has_value => c_ret' = lastPeek
        /\ (TryPopStoreTail /\ lastPeek.has_value) => c_ret' = lastPeek
      ]_vars

\* a try_pop has returned a value after a peek returned one
C7_Witness ==
    /\ c_op = "try_pop" /\ c_pc = "cons_ret" /\ c_ret.has_value
    /\ lastPeek.has_value
    /\ Len(popped) > 1

\* C8: head is written only by try_push's store and tail only by try_pop's
\* store; try_push leaves tail alone, try_pop leaves head alone, and peek,
\* empty, full, size and available leave both alone.
C8_IndexOwnership ==
    [][ /\ head_' # head_ => TryPushStoreHead
        /\ tail_' # tail_ => TryPopStoreTail
        /\ Producer => tail_' = tail_
        /\ try_pop => head_' = head_
        /\ (peek \/ observers) => (head_' = head_ /\ tail_' = tail_)
      ]_vars

\* an observer has returned on a ring whose head and tail have both moved
C8_Witness ==
    /\ c_pc = "cons_ret"
    /\ c_op \in {"empty", "full", "size", "available"}
    /\ head_ # 0 /\ tail_ # 0
    /\ Len(popped) >= Capacity

\* ======================================================================
\* Properties of the session decoder
\* ======================================================================
\* the message callbacks of the last call
MessageCalls(cs) == SelectSeq(cs, LAMBDA e : e.kind = "msg")

\* the gap callbacks of the last call
GapCalls(cs) == SelectSeq(cs, LAMBDA e : e.kind = "gap")

\* the step is a process_packet call on a packet with a full header
HeaderStep == packets_received_' = packets_received_ + 1

\* the step is a process_packet call on a data packet that carries the
\* adopted session identifier (or is the first packet, whose identifier is
\* adopted) and whose sequence number is above the expected one
GapStep ==
    /\ HeaderStep
    /\ state_ = "Unknown" \/ pkt_in'.session = session_id_
    /\ ~(pkt_in'.sequence_number = 0 /\ pkt_in'.message_count = 0)
    /\ pkt_in'.sequence_number # END_OF_SESSION
    /\ Gt64(pkt_in'.sequence_number, expected_sequence_)

\* the 64-bit sum a + n passes 2^64
Wraps64(a, n) == a < 0 /\ a + n >= 0

\* what a gap step does apart from moving expected_sequence: one gap
\* [S, seq-1] appended, gaps_detected one up, state Stale, one message
\* callback per complete block with sequences seq, seq+1, ...
GapStepEffect ==
    LET seq == pkt_in'.sequence_number
        carried == IF pkt_in'.nblocks < pkt_in'.message_count
                   THEN pkt_in'.nblocks ELSE pkt_in'.message_count
    IN /\ pending_gaps_' = Append(pending_gaps_,
              [start |-> expected_sequence_, end |-> seq - 1, detected_at_ns |-> 0])
       /\ gaps_detected_' = gaps_detected_ + 1
       /\ state_' = "Stale"
       /\ s_ret' = TRUE
       /\ MessageCalls(calls') =
              [i \in 1 .. carried |-> [kind |-> "msg", seq |-> seq + (i - 1), block |-> i - 1]]

\* C9: over a run of complete packets of one session with count >= 1, the
\* first with seq = 1 and each later one with seq = 1 + the sum of the
\* earlier counts, the state is Active and has_gaps() false after every
\* packet, and the messages parse_log are exactly those with the sequence
\* numbers 1, 2, ..., sum of the counts, in that order.
C9_InOrderRun ==
    (inOrderRun /\ runSum > 0) =>
        /\ state_ = "Active"
        /\ ~has_gaps
        /\ s_ret = TRUE
        /\ runLog = [i \in 1 .. runSum |-> i]
        /\ MessageCalls(calls) =
              [i \in 1 .. pkt_in.message_count |->
                  [kind |-> "msg", seq |-> pkt_in.sequence_number + (i - 1), block |-> i - 1]]

\* a run of three in-order packets, one of them carrying two messages
C9_Witness ==
    /\ inOrderRun
    /\ packets_received_ >= 3
    /\ runSum >= 4
    /\ Len(runLog) = runSum

PacketCall == s_op' = "process_packet" /\ gap_callback_' = gap_callback_

\* the step is a process_packet call on a packet with a full header that
\* passes the session check: the first packet, or one carrying the adopted
\* identifier
AcceptedCall ==
    /\ PacketCall
    /\ ~pkt_in'.short
    /\ state_ = "Unknown" \/ pkt_in'.session = session_id_

\* the packet of the step is a heartbeat
HeartbeatIn == ~pkt_in'.short /\ pkt_in'.sequence_number = 0 /\ pkt_in'.message_count = 0

\* C11 as claimed: a heartbeat, in any session state, leaves expected_sequence,
\* the state and the pending gaps alone, dispatches no message and adds one to
\* the heartbeat counter.
C11_Original ==
    [][ (PacketCall /\ HeartbeatIn) =>
          /\ UNCHANGED <<expected_sequence_, state_, pending_gaps_>>
          /\ MessageCalls(calls') = <<>>
          /\ heartbeats_received_' = heartbeats_received_ + 1
      ]_vars

\* C11 amended: a heartbeat that is the first packet or carries the adopted
\* identifier leaves expected_sequence and the pending gaps alone, dispatches
\* no message, adds one to the heartbeat counter and leaves the state alone,
\* except that the state Unknown becomes Active.
C11_Heartbeat ==
    [][ (AcceptedCall /\ HeartbeatIn) =>
          /\ UNCHANGED <<expected_sequence_, pending_gaps_>>
          /\ calls' = <<>>
          /\ s_ret' = TRUE
          /\ heartbeats_received_' = heartbeats_received_ + 1
          /\ state_' = (IF state_ = "Unknown" THEN "Active" ELSE state_)
      ]_vars

\* a heartbeat has been counted while a gap is pending
C11_Witness ==
    /\ s_op = "process_packet"
    /\ ~pkt_in.short /\ pkt_in.sequence_number = 0 /\ pkt_in.message_count = 0
    /\ s_ret = TRUE
    /\ state_ = "Stale"
    /\ heartbeats_received_ = 1
    /\ packets_received_ = 3

\* C12 as claimed: has_gaps() is true exactly when the pending gap list is
\* non-empty, and the list is non-empty exactly when the state is Stale.
C12_Original ==
    /\ has_gaps <=> Len(pending_gaps_) > 0
    /\ Len(pending_gaps_) > 0 <=> state_ = "Stale"

\* C12 amended: has_gaps() is true exactly when the pending gap list is
\* non-empty; the list is non-empty whenever the state is Stale; and whenever
\* the list is non-empty the state is Stale, EndOfSession or Error.
C12_GapsAndState ==
    /\ has_gaps <=> Len(pending_gaps_) > 0
    /\ state_ = "Stale" => Len(pending_gaps_) > 0
    /\ Len(pending_gaps_) > 0 => state_ \in {"Stale", "EndOfSession", "Error"}

\* gap-fill data has shortened a pending gap without closing it
C12_Witness ==
    /\ s_op = "process_retransmission"
    /\ state_ = "Stale"
    /\ Len(pending_gaps_) = 1
    /\ pending_gaps_[1].start > 1

C14_NeverDecreases ==
    [][ s_op' \in {"process_packet", "process_retransmission"} =>
          Ge64(expected_sequence_', expected_sequence_)
      ]_vars

\* a packet whose seq + count wraps has been processed after expected_sequence
\* had advanced
C14_Witness ==
    /\ s_op = "process_packet"
    /\ ~pkt_in.short
    /\ pkt_in.sequence_number = -2 /\ pkt_in.message_count = 2
    /\ s_ret = TRUE
    /\ expected_sequence_ > 1

\* C15: each pending gap has start <= end, any two pending gaps are disjoint,
\* and every pending gap ends below expected_sequence.
C15_GapsWellFormed ==
    /\ \A i \in 1 .. Len(pending_gaps_) :
          /\ Le64(pending_gaps_[i].start, pending_gaps_[i].end)
          /\ Lt64(pending_gaps_[i].end, expected_sequence_)
    /\ \A i, j \in 1 .. Len(pending_gaps_) :
          i < j => \/ Lt64(pending_gaps_[i].end, pending_gaps_[j].start)
                   \/ Lt64(pending_gaps_[j].end, pending_gaps_[i].start)

\* C16: once the state is EndOfSession or Error, no process_packet call
\* changes it.
C16_Terminal ==
    [][ (PacketCall /\ state_ \in {"EndOfSession", "Error"}) => state_' = state_ ]_vars

\* C17: after reset() the state is Unknown, expected_sequence is 1, the
\* pending gap list is empty and the four counters are zero.
C17_Reset ==
    s_op = "reset" =>
        /\ state_ = "Unknown"
        /\ expected_sequence_ = 1
        /\ pending_gaps_ = <<>>
        /\ packets_received_ = 0
        /\ messages_received_ = 0
        /\ gaps_detected_ = 0
        /\ heartbeats_received_ = 0

\* reset() has been called on a decoder that had adopted a session
C17_Witness ==
    /\ s_op = "reset"
    /\ session_id_ # NoSession
    /\ state_ = "Unknown"

\* C18: process_packet on a buffer shorter than the header returns failure,
\* leaves every member alone and invokes no callback.
C18_ShortBuffer ==
    [][ (PacketCall /\ pkt_in'.short) =>
          /\ s_ret' = FALSE
          /\ calls' = <<>>
          /\ UNCHANGED sessVars
      ]_vars

\* a short buffer has been refused while a gap is pending
C18_Witness ==
    /\ s_op = "process_packet"
    /\ pkt_in.short
    /\ s_ret = FALSE
    /\ state_ = "Stale"
    /\ packets_received_ = 2

\* C19: once an identifier is adopted, a packet carrying another identifier
\* makes process_packet return failure and set the state to Error, with no
\* message parse_log, no gap recorded and expected_sequence unchanged.
C19_Mismatch ==
    [][ (PacketCall /\ ~pkt_in'.short /\ state_ # "Unknown"
           /\ pkt_in'.session # session_id_) =>
          /\ s_ret' = FALSE
          /\ state_' = "Error"
          /\ calls' = <<>>
          /\ UNCHANGED <<pending_gaps_, gaps_detected_, expected_sequence_,
                         messages_received_, session_id_>>
      ]_vars

\* a packet of another session has been refused while a gap is pending
C19_Witness ==
    /\ s_op = "process_packet"
    /\ ~pkt_in.short
    /\ pkt_in.session # session_id_
    /\ s_ret = FALSE
    /\ state_ = "Error"
    /\ has_gaps

\* C20: a packet with sequence number 2^64-1 that is the first packet or
\* carries the adopted identifier makes process_packet return success and set
\* the state to EndOfSession, with no message parse_log, no gap recorded and
\* expected_sequence unchanged.
C20_EndOfSession ==
    [][ (AcceptedCall /\ pkt_in'.sequence_number = -1) =>
          /\ s_ret' = TRUE
          /\ state_' = "EndOfSession"
          /\ calls' = <<>>
          /\ UNCHANGED <<pending_gaps_, gaps_detected_, expected_sequence_,
                         messages_received_>>
      ]_vars

\* an end-of-session packet that declares messages has ended a Stale session
C20_Witness ==
    /\ s_op = "process_packet"
    /\ ~pkt_in.short
    /\ pkt_in.sequence_number = -1 /\ pkt_in.message_count > 0
    /\ s_ret = TRUE
    /\ state_ = "EndOfSession"
    /\ has_gaps

\* ======================================================================
\* Properties of the parser and of the file interface
\* ======================================================================
\* the step is one parse_message call, on the message LastParsed'
ParseStep == Len(parse_log') = Len(parse_log) + 1

LastParsed == parse_log[Len(parse_log)]

\* C21: parse_message on a buffer whose first byte is not a kind code of the
\* table returns 0 and increments unknown_messages by exactly one, leaving
\* every other counter unchanged.
C21_UnknownCounted ==
    [][ (ParseStep /\ LastParsed'.kind \notin Kinds) =>
          /\ parsed' = 0
          /\ stats_' = [stats_ EXCEPT !.unknown_messages = @ + 1] ]_vars

\* C22: for a kind of the table and a buffer shorter than the kind's declared
\* size, parse_message returns 0, invokes no callback (nothing is handed to
\* push_message) and changes no counter.
C22_Incomplete ==
    [][ (/\ ParseStep
         /\ LastParsed'.kind \in Kinds
         /\ LastParsed'.len < get_message_size(LastParsed'.kind)) =>
          /\ parsed' = 0
          /\ stats_' = stats_
          /\ offered' = offered ]_vars

C22_Witness ==
    /\ parse_log # <<>>
    /\ LastParsed.kind = "A" /\ LastParsed.len = 35
    /\ parsed = 0
    /\ stats_.total_messages = 1
    /\ h_calls = 2

\* the counter of each kind's category
C23_Category(kind) ==
    CASE kind \in {"A", "F"} -> "add_orders"
      [] kind \in {"E", "C"} -> "order_executed"
      [] kind = "X" -> "order_cancelled"
      [] kind = "D" -> "order_deleted"
      [] kind = "U" -> "order_replaced"
      [] kind = "P" -> "trades"
      [] OTHER -> "other_messages"

\* C23: for a kind K of the table and a buffer of at least K's declared size
\* S_K, parse_message returns S_K, increments total_messages by one and
\* increments exactly one per-kind counter, that of K's category
\* (other_messages for the administrative kinds), by one.
C23_Complete ==
    [][ (/\ ParseStep
         /\ LastParsed'.kind \in Kinds
         /\ LastParsed'.len >= get_message_size(LastParsed'.kind)) =>
          /\ parsed' = get_message_size(LastParsed'.kind)
          /\ stats_' = [stats_ EXCEPT !.total_messages = @ + 1,
                                      ![C23_Category(LastParsed'.kind)] = @ + 1] ]_vars

C23_Witness ==
    /\ parse_log # <<>>
    /\ LastParsed.kind = "I" /\ LastParsed.len = 51
    /\ parsed = 50
    /\ stats_.other_messages = 1
    /\ stats_.total_messages = 2

\* the kind tag of the record of each order kind
C25_Tag(kind) ==
    CASE kind = "A" -> "AddOrder"
      [] kind = "F" -> "AddOrderMPID"
      [] kind = "E" -> "OrderExecuted"
      [] kind = "C" -> "OrderExecutedWithPrice"
      [] kind = "X" -> "OrderCancel"
      [] kind = "D" -> "OrderDelete"
      [] kind = "U" -> "OrderReplace"
      [] kind = "P" -> "Trade"

\* C25: each complete message delivered through the PacketHandler offers
\* exactly one record, with the matching kind tag, to the ring when its kind
\* is A, F, E, C, X, D, U or P, and none when its kind is administrative,
\* which is only counted in other_messages.
C25_OneRecordPerOrderMessage ==
    [][ (/\ ParseStep
         /\ LastParsed'.kind \in Kinds
         /\ LastParsed'.len >= get_message_size(LastParsed'.kind)) =>
          IF LastParsed'.kind \in {"A", "F", "E", "C", "X", "D", "U", "P"}
          THEN /\ Len(offered') = Len(offered) + 1
               /\ SubSeq(offered', 1, Len(offered)) = offered
               /\ offered'[Len(offered')].type = C25_Tag(LastParsed'.kind)
          ELSE /\ offered' = offered
               /\ stats_'.other_messages = stats_.other_messages + 1 ]_vars

\* the number of leading messages of a stream that lie whole within its bytes
RECURSIVE WholeMessages(_, _)
WholeMessages(msgs, len) ==
    IF msgs = <<>> \/ LengthPrefix + Head(msgs).len > len THEN 0
    ELSE 1 + WholeMessages(Tail(msgs), len - LengthPrefix - Head(msgs).len)

\* the step is the return of process_itch_file_data
FileReturn ==
    h_op = "process_itch_file_data" /\ h_pc = "loop" /\ h_pc' = "idle"

\* C26: fed k complete length-prefixed messages of known kinds, with or
\* without an incomplete message after them, process_itch_file_data returns
\* k, hands exactly these k messages to the parser, in stream order and once
\* each, and increases total_messages by exactly k.
C26_FileStream ==
    [][ FileReturn =>
          LET k == WholeMessages(h_in.msgs, h_in.len)
          IN (\A i \in 1 .. k :
                 /\ h_in.msgs[i].kind \in Kinds
                 /\ h_in.msgs[i].len >= get_message_size(h_in.msgs[i].kind)) =>
               /\ h_ret' = [count |-> k]
               /\ parse_log = SubSeq(h_in.msgs, 1, k)
               /\ stats_.total_messages = h_before.total_messages + k ]_vars

C26_Witness ==
    /\ h_op = "process_itch_file_data" /\ h_pc = "idle"
    /\ Len(h_in.msgs) = 3
    /\ h_in.msgs[1].kind = "A" /\ h_in.msgs[2].kind = "S"
    /\ h_in.len = StreamBytes(h_in.msgs) - 1
    /\ h_ret = [count |-> 2]
    /\ Len(parse_log) = 2
    /\ stats_.total_messages = h_before.total_messages + 2
    /\ h_before.total_messages > 0

\* ======================================================================
\* Properties of the PacketHandler and of the FeedHandler's consumer
\* ======================================================================
\* the step is the return of push_message's try_push to push_message
PushReturnStep == h_pc = "loop" /\ p_pc = "push_ret" /\ p_pc' # "push_ret"

\* C24: for every record the PacketHandler emits, try_push is attempted
\* exactly once and the producer never waits: a full ring drops the record
\* for good, adding one to buffer_full_count and nothing to messages_pushed;
\* otherwise the record is enqueued, adding one to messages_pushed and
\* nothing to buffer_full_count.
C24_PushOnce ==
    /\ [][ PushReturnStep =>
             /\ p_pc' = "idle"
             /\ p_steps = (IF p_ret THEN 5 ELSE 2)
             /\ IF p_ret
                THEN /\ pushed[Len(pushed)] = T(offered[Len(offered)])
                     /\ messages_pushed_' = messages_pushed_ + 1
                     /\ buffer_full_count_' = buffer_full_count_
                ELSE /\ buffer_full_count_' = buffer_full_count_ + 1
                     /\ messages_pushed_' = messages_pushed_
             /\ Len(pushed') = messages_pushed_' ]_vars
    /\ [](Len(offered) = messages_pushed_ + buffer_full_count_
                         + (IF p_pc = "idle" THEN 0 ELSE 1))

C24_Witness ==
    /\ h_op = "process_raw_packet" /\ h_pc = "idle"
    /\ Len(offered) = 4
    /\ messages_pushed_ = 3
    /\ buffer_full_count_ = 1
    /\ Len(pushed) = 3
    /\ popped = <<>>

\* the step is the return of process_raw_packet
RawReturn == h_op = "process_raw_packet" /\ h_pc = "loop" /\ h_pc' = "idle"

\* C27: each call that feeds a frame increments exactly one of
\* invalid_packets and packets_processed: it returns false, increments
\* invalid_packets and hands nothing to the ring when the frame is shorter
\* than the minimum composite header, is not IPv4, is not UDP, or is rejected
\* by the session decoder; otherwise it returns true and increments
\* packets_processed.
C27_OneCounterPerFrame ==
    [][ RawReturn =>
          IF \/ h_in.len < 62
             \/ h_in.ether_type # 2048
             \/ h_in.protocol # 17
             \/ ~s_ret
          THEN /\ h_ret' = [bool |-> FALSE]
               /\ invalid_packets_' = invalid_packets_ + 1
               /\ packets_processed_' = packets_processed_
               /\ Len(offered) = h_before.offered
               /\ parse_log = <<>>
          ELSE /\ h_ret' = [bool |-> TRUE]
               /\ packets_processed_' = packets_processed_ + 1
               /\ invalid_packets_' = invalid_packets_ ]_vars

C27_Witness ==
    /\ h_op = "process_raw_packet" /\ h_pc = "idle"
    /\ h_ret = [bool |-> FALSE]
    /\ h_in.len >= 62 /\ h_in.ether_type = 2048 /\ h_in.protocol = 17
    /\ state_ = "Error"
    /\ packets_processed_ = 1
    /\ invalid_packets_ = 1
    /\ Len(offered) >= 1

\* s can be obtained from t by deleting elements
RECURSIVE IsSubsequence(_, _)
IsSubsequence(s, t) ==
    IF s = <<>> THEN TRUE
    ELSE IF t = <<>> THEN FALSE
    ELSE IF Head(s) = Head(t) THEN IsSubsequence(Tail(s), Tail(t))
    ELSE IsSubsequence(s, Tail(t))

Increasing(refs) == \A i, j \in 1 .. Len(refs) : i < j => refs[i] < refs[j]

\* C28: the records the consumer obtains appear in the order in which the
\* producer dispatched their messages: in block order within one packet, in
\* strictly increasing sequence-number order across a run of in-order
\* packets, the records of a post-gap packet before those of a packet of
\* older sequence numbers processed later, and drops never reorder what is
\* delivered.
C28_DispatchOrder ==
    LET got == [i \in 1 .. Len(popped) |-> popped[i].w0]
        sent == [i \in 1 .. Len(pushed) |-> pushed[i].w0]
        refs == [i \in 1 .. Len(offered) |-> offered[i].order_ref]
        blocks == [i \in 1 .. Len(parse_log) |-> parse_log[i].ref]
    IN /\ \A i \in 1 .. Len(popped) : popped[i].w1 = popped[i].w0
       /\ IsPrefix(got, sent)
       /\ IsSubsequence(sent, offered)
       /\ Increasing(blocks)
       /\ Increasing(SubSeq(refs, h_before.offered + 1, Len(refs)))
       /\ inOrderRun => Increasing(refs)

\* a post-gap packet (3, 4) was processed before the packet (1, 2); the
\* consumer got the records 3, 4, 1 in that order and record 2 was dropped
C28_Witness ==
    /\ Len(offered) = 4
    /\ offered[1].order_ref = 3 /\ offered[2].order_ref = 4
    /\ offered[3].order_ref = 1 /\ offered[4].order_ref = 2
    /\ Len(popped) = 3
    /\ popped[1].w0.order_ref = 3
    /\ popped[2].w0.order_ref = 4
    /\ popped[3].w0.order_ref = 1
    /\ buffer_full_count_ = 1

\* C29: after stop() has cleared the running flag the consumer loop
\* eventually exits, having dequeued every record that was in the ring when
\* the flag was cleared; if the producer enqueued nothing after that, the
\* ring is empty once the loop has finished.
C29_StopDrains ==
    /\ (c_loop # "not_started" /\ ~running_) ~> (c_loop = "exited")
    /\ [](c_loop = "exited" =>
             /\ Len(popped) >= stop_pushed
             /\ Len(pushed) = stop_pushed =>
                   (head_ = tail_ /\ Len(popped) = Len(pushed)))

\* the drain loop has just dequeued the last of the records that were in the
\* ring when the flag was cleared
C29_Witness ==
    /\ ~running_
    /\ c_loop = "drain"
    /\ c_pc = "cons_ret"
    /\ c_ret.has_value
    /\ stop_pushed >= 2
    /\ Len(pushed) = stop_pushed
    /\ Len(popped) = stop_pushed
    /\ total_messages_processed_ = stop_pushed - 1

\* C30: the gap callback is invoked exactly once for each gap appended to
\* the pending list, in the process_packet call that detects the gap and
\* before any message of that packet is dispatched, and never again for the
\* same gap range by a later packet (here: never for the range of a gap that
\* is pending, every pending gap having been notified); within one
\* process_packet call the message callback is invoked at most once per
\* block.
C30_GapCallbackOnce ==
    [][ PacketCall =>
          LET appended == gaps_detected_' = gaps_detected_ + 1
              msgs == MessageCalls(calls')
          IN /\ (appended /\ gap_callback_) =>
                   /\ Len(GapCalls(calls')) = 1
                   /\ calls'[1].kind = "gap"
                   /\ pending_gaps_' = Append(pending_gaps_,
                         [start |-> calls'[1].start, end |-> calls'[1].end,
                          detected_at_ns |-> 0])
                   /\ \A i \in 1 .. Len(pending_gaps_) :
                         \/ pending_gaps_[i].start # calls'[1].start
                         \/ pending_gaps_[i].end # calls'[1].end
             /\ ~appended => GapCalls(calls') = <<>>
             /\ \A i, j \in 1 .. Len(msgs) : i # j => msgs[i].block # msgs[j].block
             /\ Len(msgs) <= pkt_in'.nblocks ]_vars

\* ======================================================================
\* Duplicates, gap fills and truncated packets
\* ======================================================================
\* the packet of the step is a data packet: neither heartbeat nor end of
\* session
DataIn ==
    /\ ~(pkt_in'.sequence_number = 0 /\ pkt_in'.message_count = 0)
    /\ pkt_in'.sequence_number # -1

\* the complete blocks the packet of the step carries, as message callbacks
\* with the sequence numbers seq, seq+1, ...
CarriedCalls ==
    LET carried == IF pkt_in'.nblocks < pkt_in'.message_count
                   THEN pkt_in'.nblocks ELSE pkt_in'.message_count
    IN [i \in 1 .. carried |->
           [kind |-> "msg", seq |-> pkt_in'.sequence_number + (i - 1), block |-> i - 1]]

\* the gap G = [a, b] after a fill with the range [s, e]: removed, cut at
\* the low side, cut at the high side, or left as it is
GapAfterFill(G, s, e) ==
    IF Le64(s, G.start) /\ Ge64(e, G.end) THEN <<>>
    ELSE IF Le64(s, G.start) /\ Le64(G.start, e) /\ Lt64(e, G.end)
    THEN <<[G EXCEPT !.start = e + 1]>>
    ELSE IF Lt64(G.start, s) /\ Le64(s, G.end) /\ Le64(G.end, e)
    THEN <<[G EXCEPT !.end = s - 1]>>
    ELSE <<G>>

RECURSIVE GapsAfterFill(_, _, _)
GapsAfterFill(gaps, s, e) ==
    IF gaps = <<>> THEN <<>>
    ELSE GapAfterFill(Head(gaps), s, e) \o GapsAfterFill(Tail(gaps), s, e)

\* the step is a process_packet call on a data packet of the session whose
\* sequence number is below the expected one
DuplicateCall ==
    /\ AcceptedCall
    /\ DataIn
    /\ Lt64(pkt_in'.sequence_number, expected_sequence_)

\* C31: for a data packet whose seq is below the expected sequence S,
\* check_gap_fill is applied to [seq, seq+count-1], no gap is recorded, every
\* complete block is dispatched in order with the sequences seq, seq+1, ...,
\* and expected_sequence becomes the larger of S and the 64-bit sum
\* seq + count, so it is unchanged when seq + count <= S.
C31_Duplicate ==
    [][ DuplicateCall =>
          LET seq == pkt_in'.sequence_number
              sum == seq + pkt_in'.message_count
          IN /\ pending_gaps_' = GapsAfterFill(pending_gaps_, seq, sum - 1)
             /\ gaps_detected_' = gaps_detected_
             /\ GapCalls(calls') = <<>>
             /\ MessageCalls(calls') = CarriedCalls
             /\ s_ret' = TRUE
             /\ expected_sequence_' =
                   (IF Gt64(sum, expected_sequence_) THEN sum ELSE expected_sequence_)
             /\ Le64(sum, expected_sequence_) => expected_sequence_' = expected_sequence_
      ]_vars

\* a wholly duplicate packet of two messages has cut the pending gap [1, 3]
\* down to [1, 2] and left expected_sequence at 5
C31_Witness ==
    /\ s_op = "process_packet"
    /\ pkt_in.sequence_number = 3 /\ pkt_in.message_count = 2 /\ pkt_in.nblocks = 2
    /\ s_ret = TRUE
    /\ packets_received_ = 2
    /\ expected_sequence_ = 5
    /\ gaps_detected_ = 1
    /\ Len(pending_gaps_) = 1
    /\ pending_gaps_[1].start = 1 /\ pending_gaps_[1].end = 2
    /\ Len(MessageCalls(calls)) = 2

\* C32 as claimed: when the session is Stale and a packet removes the last
\* pending gap the state is Active when the call returns, and while a gap
\* remains after a packet the state stays Stale.
C32_Original ==
    [][ (PacketCall /\ state_ = "Stale") =>
          /\ pending_gaps_' = <<>> => state_' = "Active"
          /\ pending_gaps_' # <<>> => state_' = "Stale"
      ]_vars

\* C32 amended: when the session is Stale and a packet removes the last
\* pending gap the state is Active when the call returns; while a gap
\* remains after a packet the state stays Stale, unless the packet carries
\* another session identifier (Error) or is an end-of-session packet
\* (EndOfSession).
C32_StaleUntilFilled ==
    [][ (PacketCall /\ state_ = "Stale") =>
          /\ pending_gaps_' = <<>> => state_' = "Active"
          /\ pending_gaps_' # <<>> =>
                state_' = (IF pkt_in'.short THEN "Stale"
                           ELSE IF pkt_in'.session # session_id_ THEN "Error"
                           ELSE IF pkt_in'.sequence_number = -1 THEN "EndOfSession"
                           ELSE "Stale")
      ]_vars

\* a duplicate packet has removed the only pending gap of a Stale session
C32_Witness ==
    /\ s_op = "process_packet"
    /\ pkt_in.sequence_number = 1 /\ pkt_in.message_count = 2
    /\ s_ret = TRUE
    /\ packets_received_ = 2
    /\ gaps_detected_ = 1
    /\ pending_gaps_ = <<>>
    /\ state_ = "Active"
    /\ expected_sequence_ > 3

\* the step applies check_gap_fill to the range of its packet: a
\* process_retransmission call or a process_packet call on a duplicate
FillCall ==
    \/ s_op' = "process_retransmission" /\ gap_callback_' = gap_callback_
    \/ DuplicateCall

\* every gap of after lies inside a gap of before
Narrowed(before, after) ==
    \A j \in 1 .. Len(after) : \E i \in 1 .. Len(before) :
       /\ Le64(before[i].start, after[j].start)
       /\ Le64(after[j].end, before[i].end)

\* C33: for every pending gap G = [a, b] and fill range [s, e] with s <= e,
\* check_gap_fill removes G when s <= a and e >= b, makes it [e+1, b] when
\* s <= a <= e < b, makes it [a, s-1] when a < s <= b <= e, and leaves it
\* unchanged when the range lies strictly inside G or does not overlap it; it
\* never splits, adds or widens a gap.
C33_GapFill ==
    [][ (FillCall
         /\ Le64(pkt_in'.sequence_number,
                 pkt_in'.sequence_number + pkt_in'.message_count - 1)) =>
          /\ pending_gaps_' =
                GapsAfterFill(pending_gaps_, pkt_in'.sequence_number,
                              pkt_in'.sequence_number + pkt_in'.message_count - 1)
          /\ Len(pending_gaps_') <= Len(pending_gaps_)
          /\ Narrowed(pending_gaps_, pending_gaps_')
      ]_vars

\* gap-fill data for sequence 2 alone has left the pending gap [1, 3] whole
C33_Witness ==
    /\ s_op = "process_retransmission"
    /\ pkt_in.sequence_number = 2 /\ pkt_in.message_count = 1
    /\ Len(pending_gaps_) = 1
    /\ pending_gaps_[1].start = 1 /\ pending_gaps_[1].end = 3
    /\ state_ = "Stale"

\* the step is a process_packet call on a data packet of the session whose
\* buffer ends before the last block its header declares
TruncatedCall ==
    /\ AcceptedCall
    /\ DataIn
    /\ pkt_in'.nblocks < pkt_in'.message_count

\* C35: a truncated block in a packet with a valid header is not fatal:
\* process_packet dispatches exactly the complete blocks before it, in
\* order, nothing after it, returns success and does not move the state to
\* Error.
C35_TruncatedBlock ==
    [][ TruncatedCall =>
          /\ s_ret' = TRUE
          /\ MessageCalls(calls') =
                [i \in 1 .. pkt_in'.nblocks |->
                    [kind |-> "msg", seq |-> pkt_in'.sequence_number + (i - 1),
                     block |-> i - 1]]
          /\ messages_received_' = messages_received_ + pkt_in'.nblocks
          /\ state_' = "Error" => state_ = "Error"
      ]_vars

\* a packet declaring two blocks and cut inside the second has been accepted
\* with its first block dispatched
C35_Witness ==
    /\ s_op = "process_packet"
    /\ pkt_in.message_count = 2 /\ pkt_in.nblocks = 1 /\ pkt_in.extra = 3
    /\ pkt_in.sequence_number = 1
    /\ s_ret = TRUE
    /\ Len(MessageCalls(calls)) = 1
    /\ messages_received_ = 1
    /\ state_ = "Active"

\* C37: in every state reached through process_packet,
\* process_retransmission and reset, state = Stale implies that the pending
\* gap list is not empty.
C37_StaleHasGaps == state_ = "Stale" => Len(pending_gaps_) >= 1

\* gap-fill data that closes neither of two pending gaps has left the
\* session Stale
C37_Witness ==
    /\ s_op = "process_retransmission"
    /\ state_ = "Stale"
    /\ Len(pending_gaps_) = 2
    /\ packets_received_ = 2

\* C34: for an in-order packet whose header declares N blocks and whose
\* buffer holds only d < N complete blocks, expected_sequence is advanced by
\* d, the number of messages dispatched, and not by N.
C34_AdvanceByDispatched ==
    [][ (TruncatedCall /\ pkt_in'.sequence_number = expected_sequence_) =>
          expected_sequence_' = expected_sequence_ + pkt_in'.nblocks
      ]_vars

\* ======================================================================
\* Frames, counters and the ring behind the decoder
\* ======================================================================
\* C36: when a block's declared length extends beyond the end of a session
\* packet fed through the PacketHandler, invalid_packets increases by one for
\* that packet.
C36_TruncationCounted ==
    [][ (RawReturn
         /\ h_in.len >= 62 /\ h_in.ether_type = 2048 /\ h_in.protocol = 17
         /\ s_op = "process_packet"
         /\ ~pkt_in.short
         /\ pkt_in.nblocks < pkt_in.message_count /\ pkt_in.extra = 3) =>
          invalid_packets_' = invalid_packets_ + 1
      ]_vars

\* C38: for every frame that passes the minimum-length, IPv4 and UDP
\* checks, the offset 14 + 4*IHL + 8 of the payload does not exceed the
\* length of the frame, so that len - offset does not wrap.
C38_PayloadInsideFrame ==
    (/\ h_op = "process_raw_packet"
     /\ h_in.len >= 62 /\ h_in.ether_type = 2048 /\ h_in.protocol = 17) =>
        14 + 4 * h_in.ihl + 8 <= h_in.len

\* the records in the ring, oldest first
RingContents ==
    [k \in 1 .. (head_ - tail_) % Capacity |-> buffer_[(tail_ + k - 1) % Capacity]]

\* C39: whenever the producer is between feed calls, messages_pushed equals
\* the number of records dequeued so far plus the number of records live in
\* the ring; the records dequeued followed by those in the ring are exactly
\* the records counted as pushed, each once and in order, and the records
\* counted in buffer_full_count are the offered ones that are not among them.
C39_PushedAccounting ==
    h_pc = "idle" =>
        /\ messages_pushed_ = Len(popped) + ((head_ - tail_) % Capacity)
        /\ Len(pushed) = messages_pushed_
        /\ popped \o RingContents = pushed
        /\ IsSubsequence(pushed, [i \in 1 .. Len(offered) |-> T(offered[i])])
        /\ Len(offered) = messages_pushed_ + buffer_full_count_
        /\ total_messages_processed_ <= Len(popped)

\* between two calls: three records pushed, of which two are dequeued and one
\* is in the ring, and one record dropped
C39_Witness ==
    /\ h_op = "process_raw_packet" /\ h_pc = "idle"
    /\ h_calls = 2
    /\ messages_pushed_ = 3
    /\ buffer_full_count_ = 1
    /\ Len(popped) = 2
    /\ (head_ - tail_) % Capacity = 1
    /\ total_messages_processed_ = 2

\* the step enters process_raw_packet
RawCall == h_pc = "idle" /\ h_pc' = "loop" /\ h_op' = "process_raw_packet"

\* the members of the session decoder
SessionMembers ==
    [session_id |-> session_id_, expected |-> expected_sequence_,
     state |-> state_, gaps |-> pending_gaps_,
     packets |-> packets_received_, messages |-> messages_received_,
     ngaps |-> gaps_detected_, heartbeats |-> heartbeats_received_]

====
